---- MODULE Spec2Model ----
(***************************************************************************)
(* State-machine model of the BharatVRsh service worker                    *)
(* (src/Web Platform/sw.js): the three cache tiers, the fetch strategies,  *)
(* the install / activate lifecycle, the control messages and the cache    *)
(* size governor.                                                          *)
(*                                                                         *)
(* Representation.  A URL is the record [protocol, host, pathname, search] *)
(* that `new URL(...)` makes of a string; pathname and search are strings, *)
(* and endsWith / includes / startsWith are the tests on their characters. *)
(*                                                                         *)
(* Every `await` of the source is a point where other callbacks may run:   *)
(* each handler is a small process whose steps are the stretches of code   *)
(* between two awaits.  A Cache API call acts on the storage when it is    *)
(* issued; its promise settles in a later step.                            *)
(***************************************************************************)
EXTENDS Integers, Sequences, FiniteSets, TLC

VARIABLES
    lifecycle,   \* "parsed" | "installing" | "installed" | "activating" |
                 \* "activated" | "redundant"
    startup,     \* the progress of the install / activate listener
    caches,      \* CacheStorage: sequence (creation order) of [name, id, entries]
    detached,    \* the Cache objects caches.delete removed from the storage
                 \* while a running function held them
    nextCacheId, \* identity given to the next Cache object created
    handlers,    \* event number -> the fetch handler that answers the event
    unhandled,   \* the last fetch event the listener left to the browser
    gov,         \* the size governor (manageCacheSize) run
    bundle,      \* event number -> the cacheHeritageSite run of the message
    clearing,    \* event number -> the clearAllCaches run of the message
    cacheStatus, \* event number -> the getCacheStatus run of the message
    nEvents,     \* events dispatched to the worker so far (fetch, message,
                 \* timer, sync)
    syncs,       \* event number -> the flush pass (sync*) of the sync event
    notification, \* the notification of tag 'heritage-update' on display
    windows      \* the URLs clients.openWindow was called with, in order

syncVars == <<syncs>>

pushVars == <<notification, windows>>

vars == <<lifecycle, startup, caches, detached, nextCacheId, handlers,
          unhandled, gov, bundle, clearing, cacheStatus, nEvents, syncs,
          notification, windows>>

---------------------------------------------------------------------------
(* Bounds of the model *)

\* Events dispatched to the worker in a run: fetch events, control messages
\* and timer ticks.  All of them may be in progress at once.
MaxEvents == 2

\* Push messages and notification clicks in a run.
MaxPushEvents == 4

---------------------------------------------------------------------------
(* Constants of the program *)

STATIC_CACHE == "bharatvrsh-static-v1.2.0"

DYNAMIC_CACHE == "bharatvrsh-dynamic-v1.2.0"

HERITAGE_CACHE == "bharatvrsh-heritage-v1.2.0"

\* A tier left behind by the previous build of the worker.
OLD_STATIC_CACHE == "bharatvrsh-static-v1.1.0"

MAX_CACHE_SIZE == 104857600

Origin == "bharatvrsh.app"

Url(protocol, host, pathname, search) ==
    [protocol |-> protocol, host |-> host, pathname |-> pathname,
     search |-> search]

\* A URL given as a path string is resolved against the worker's origin.
Local(pathname) == Url("https:", Origin, pathname, "")

NoUrl == Url("", "", "", "")

STATIC_ASSETS == <<
    "/",
    "/index.html",
    "/manifest.json",
    "/styles/main.css",
    "/styles/heritage.css",
    "/styles/ar-viewer.css",
    "/scripts/app.js",
    "/scripts/ar-viewer.js",
    "/scripts/heritage-sites.js",
    "/scripts/tours.js",
    "/scripts/utils.js",
    "/assets/logo.svg",
    "/assets/favicon.ico",
    "/assets/icons/icon-192x192.png",
    "/assets/icons/icon-512x512.png",
    "https://fonts.googleapis.com/css2?family=Inter:wght@300;400;500;600;700&family=Playfair+Display:wght@400;600;700&display=swap",
    "https://fonts.googleapis.com/icon?family=Material+Icons",
    "https://cdnjs.cloudflare.com/ajax/libs/three.js/r128/three.min.js" >>

API_ENDPOINTS == <<
    "/api/heritage/sites",
    "/api/tours",
    "/api/guides" >>

---------------------------------------------------------------------------
(* Values *)

Undefined == [kind |-> "undefined"]

\* fetch() rejects with a TypeError when the network cannot be reached.
NetworkError == [kind |-> "error", name |-> "TypeError"]

Response(status, url, ver, body) ==
    [kind |-> "response", status |-> status, url |-> url, ver |-> ver,
     body |-> body]

IsResponse(v) == v.kind = "response"

\* Response.ok
Ok(resp) == resp.status >= 200 /\ resp.status <= 299

Request(method, url, mode) == [method |-> method, url |-> url, mode |-> mode]

---------------------------------------------------------------------------
(* Strings and URLs *)

\* s.endsWith(t)
EndsWith(s, t) ==
    /\ Len(s) >= Len(t)
    /\ SubSeq(s, Len(s) - Len(t) + 1, Len(s)) = t

\* s.includes(t)
Includes(s, t) ==
    \E i \in 1..(Len(s) - Len(t) + 1) : SubSeq(s, i, i + Len(t) - 1) = t

\* s.startsWith(t)
StartsWith(s, t) ==
    /\ Len(s) >= Len(t)
    /\ SubSeq(s, 1, Len(t)) = t

\* s.indexOf(c, i) for a character c, Len(s) + 1 when there is none.
RECURSIVE IndexOf(_, _, _)
IndexOf(s, c, i) ==
    IF i > Len(s) \/ SubSeq(s, i, i) = c THEN i ELSE IndexOf(s, c, i + 1)

\* new URL(s, self.location) for the strings of the worker: an absolute
\* "https://host/pathname?search", or a path of the worker's origin.
Resolve(s) ==
    IF StartsWith(s, "https://")
    THEN LET slash == IndexOf(s, "/", 9)
             query == IndexOf(s, "?", slash)
         IN  Url("https:", SubSeq(s, 9, slash - 1),
                 IF slash > Len(s) THEN "/" ELSE SubSeq(s, slash, query - 1),
                 SubSeq(s, query, Len(s)))
    ELSE LET query == IndexOf(s, "?", 1)
         IN  Url("https:", Origin, SubSeq(s, 1, query - 1),
                 SubSeq(s, query, Len(s)))

\* The requests cache.addAll(STATIC_ASSETS) makes.
AssetUrls == [i \in 1..Len(STATIC_ASSETS) |-> Resolve(STATIC_ASSETS[i])]

\* STATIC_ASSETS.some(asset => url.pathname.endsWith(asset))
EndsWithStaticAsset(url) ==
    \E i \in 1..Len(STATIC_ASSETS) : EndsWith(url.pathname, STATIC_ASSETS[i])

isStaticAsset(url) ==
    \/ EndsWithStaticAsset(url)
    \/ Includes(url.pathname, "/styles/")
    \/ Includes(url.pathname, "/scripts/")
    \/ Includes(url.pathname, "/assets/icons/")
    \/ url.host = "fonts.googleapis.com"
    \/ url.host = "fonts.gstatic.com"
    \/ url.host = "cdnjs.cloudflare.com"

isAPIRequest(url) ==
    \/ StartsWith(url.pathname, "/api/")
    \/ \E i \in 1..Len(API_ENDPOINTS) :
           StartsWith(url.pathname, API_ENDPOINTS[i])

isHeritageContent(url) ==
    \/ Includes(url.pathname, "/assets/images/")
    \/ Includes(url.pathname, "/assets/models/")
    \/ Includes(url.pathname, "/assets/audio/")
    \/ Includes(url.pathname, "/assets/videos/")

\* handleFetchRequest testing the API rule before the static-asset rule.
StrategyApiFirst(request) ==
    IF isAPIRequest(request.url) THEN "api"
    ELSE IF isStaticAsset(request.url) THEN "static"
    ELSE IF isHeritageContent(request.url) THEN "heritage"
    ELSE IF request.mode = "navigate" THEN "navigation"
    ELSE "default"

\* The strategy handleFetchRequest hands the request to.
Strategy(request) ==
    IF isStaticAsset(request.url) THEN "static"
    ELSE IF isAPIRequest(request.url) THEN "api"
    ELSE IF isHeritageContent(request.url) THEN "heritage"
    ELSE IF request.mode = "navigate" THEN "navigation"
    ELSE "default"

\* The fetch listener without its method guard.
RespondsToAnyMethod(request) ==
    request.url.protocol \in {"http:", "https:"}

\* The fetch listener's guards: only GET requests over http(s) are answered
\* by the worker.
Responds(request) ==
    /\ request.method = "GET"
    /\ request.url.protocol \in {"http:", "https:"}

---------------------------------------------------------------------------
(* The Cache API *)

CacheIndex(cs, name) ==
    IF \E i \in 1..Len(cs) : cs[i].name = name
    THEN CHOOSE i \in 1..Len(cs) : cs[i].name = name
    ELSE 0

HasCache(cs, name) == CacheIndex(cs, name) # 0

\* The entries of the cache called `name` (none when there is no such cache).
Tier(cs, name) ==
    IF HasCache(cs, name) THEN cs[CacheIndex(cs, name)].entries ELSE <<>>

Keys(entries) == [i \in 1..Len(entries) |-> entries[i].key]

KeySet(entries) == {entries[i].key : i \in 1..Len(entries)}

\* caches.open(name): the cache is created when it does not exist.
CachesOpen(cs, name, id) ==
    IF HasCache(cs, name) THEN cs
    ELSE Append(cs, [name |-> name, id |-> id, entries |-> <<>>])

\* The identity of the Cache object caches.open(name) resolves with.
OpenedId(cs, name, id) ==
    IF HasCache(cs, name) THEN cs[CacheIndex(cs, name)].id ELSE id

\* caches.delete(name)
CachesDelete(cs, name) == SelectSeq(cs, LAMBDA c : c.name # name)

Without(entries, key) == SelectSeq(entries, LAMBDA e : e.key # key)

\* cache.put(key, resp) on the Cache object `id`: an entry of the same key is
\* replaced, the new entry comes last.  A Cache object that caches.delete has
\* removed from the storage meanwhile takes the entry with it.
CachePut(cs, id, key, resp) ==
    [i \in 1..Len(cs) |->
        IF cs[i].id = id
        THEN [cs[i] EXCEPT !.entries =
                 Append(Without(@, key), [key |-> key, resp |-> resp])]
        ELSE cs[i]]

\* cache.delete(key) on the Cache object `id`
CacheDelete(cs, id, key) ==
    [i \in 1..Len(cs) |->
        IF cs[i].id = id
        THEN [cs[i] EXCEPT !.entries = Without(@, key)]
        ELSE cs[i]]

\* cache.match(key)
CacheMatch(entries, key) ==
    IF \E i \in 1..Len(entries) : entries[i].key = key
    THEN entries[CHOOSE i \in 1..Len(entries) : entries[i].key = key].resp
    ELSE Undefined

\* caches.match(key): the first cache, in creation order, that holds the key.
CachesMatch(cs, key) ==
    LET hits == {i \in 1..Len(cs) : IsResponse(CacheMatch(cs[i].entries, key))}
    IN  IF hits = {} THEN Undefined
        ELSE CacheMatch(cs[CHOOSE i \in hits : \A j \in hits : i <= j].entries, key)

---------------------------------------------------------------------------
(* The environment: the requests pages issue, and what the network answers *)

UrlShell == Local("/index.html")

UrlOffline == Local("/offline.html")

UrlCss == Local("/styles/main.css")

UrlApi == Local("/api/heritage/sites")

UrlImage == Local("/assets/images/bateshwar-featured.jpg")

UrlModel == Local("/assets/models/bateshwar_temple.glb")

UrlPage == Local("/tours")

UrlVideo == Local("/videos/bateshwar-tour.mp4")

UrlFeedback == Local("/api/feedback")

UrlExtension == Url("chrome-extension:", "aapbdbdomjkkjkaonfhkkikfgjllcleb",
                    "/content.js", "")

Requests == {
    Request("GET", UrlCss, "no-cors"),
    Request("GET", UrlApi, "cors"),
    Request("GET", UrlImage, "no-cors"),
    Request("GET", UrlPage, "navigate"),
    Request("GET", UrlVideo, "no-cors"),
    Request("POST", UrlFeedback, "cors"),
    Request("GET", UrlExtension, "no-cors") }

NoRequest == Request("", NoUrl, "")

Statuses == {200, 404}

\* What a fetch of `url` issued by event `ver` settles with: a response of
\* the origin, or a rejection.
NetOutcomes(url, ver) ==
    {Response(st, url, ver, "origin") : st \in Statuses} \cup {NetworkError}

SmallBody == 4096

LargeBody == 125829120

\* Bytes a stored response takes.
BodySize(url) == IF url = UrlVideo THEN LargeBody ELSE SmallBody

RECURSIVE EntriesSize(_)
EntriesSize(entries) ==
    IF entries = <<>> THEN 0
    ELSE BodySize(Head(entries).key) + EntriesSize(Tail(entries))

RECURSIVE CacheUsage(_)
CacheUsage(cs) ==
    IF cs = <<>> THEN 0
    ELSE EntriesSize(Head(cs).entries) + CacheUsage(Tail(cs))

\* Bytes the origin stores outside the Cache API (IndexedDB, ...), which
\* navigator.storage.estimate() counts too.
OtherUsage == {0, MAX_CACHE_SIZE}

---------------------------------------------------------------------------
(* Synthesized responses *)

\* new Response(JSON.stringify({error: 'Offline', ...}), {status: 503, ...})
OfflineApiResponse ==
    Response(503, NoUrl, 0, "{error:Offline,message:This request is not available offline}")

\* new Response('<!DOCTYPE html>...', {headers: ...}): status 200
OfflineHtmlResponse ==
    Response(200, NoUrl, 0, "<!DOCTYPE html><html>...<h1>Offline</h1>...</html>")

---------------------------------------------------------------------------
(* Fetch handlers.  A handler is the record of one respondWith(...) call:   *)
(*   pc               "idle", or the call the handler waits for: "match"    *)
(*                    (the lookup that opens a cache-first strategy),       *)
(*                    "fetch", "open", "lookup" (the lookup of the catch    *)
(*                    block), "fallback" (the lookup of /offline.html);     *)
(*                    "put" once it has answered and its write is still to  *)
(*                    commit; "done"                                        *)
(*   id               the number of the event it answers                    *)
(*   networkResponse  what fetch(request) settled with (Undefined before)   *)
(*   cache            the Cache object caches.open resolves with            *)
(*   found            what the caches.match awaited resolves with           *)
(*   error            the error the catch block has caught                  *)
(*   rejection        what the caches.open awaited rejects with (Undefined  *)
(*                    when it resolves)                                     *)
(*   result           what respondWith receives: Pending, a response,       *)
(*                    Undefined or the error the promise rejects with       *)
(*   log              the network and Cache API calls made, in order        *)
(* A Cache API call acts on the storage when it is issued and its promise   *)
(* settles later: a step runs from the settling of one awaited promise to   *)
(* the issue of the next awaited call.  cache.put, which is not awaited,    *)
(* commits once the response body has been read, in a later step.           *)

Pending == [kind |-> "pending"]

IdleHandler ==
    [pc |-> "idle", id |-> 0, request |-> NoRequest, strategy |-> "",
     networkResponse |-> Undefined, cache |-> 0, found |-> Undefined,
     error |-> Undefined, rejection |-> Undefined, result |-> Pending,
     log |-> <<>>]

NewHandler(id, request) ==
    [IdleHandler EXCEPT !.id = id, !.request = request]

Return(h, value) == [h EXCEPT !.pc = "done", !.result = value]

Called(h, calls) == [h EXCEPT !.log = @ \o calls]

\* `await caches.match(key)` is issued; the handler waits at `pc`.
Match(h, cs, key, pc) ==
    [Called(h, <<"match">>) EXCEPT !.pc = pc, !.found = CachesMatch(cs, key)]

\* `await fetch(request)` is issued.
Fetch(h) == [Called(h, <<"fetch">>) EXCEPT !.pc = "fetch"]

\* `const cache = await caches.open(tier)` is issued.
Open(h, cs, nid, tier) ==
    [h  |-> [Called(h, <<"open">>) EXCEPT
                !.pc = "open", !.cache = OpenedId(cs, tier, nid)],
     cs |-> CachesOpen(cs, tier, nid)]

\* `cache.put(request, networkResponse.clone()); return networkResponse;`:
\* the put is not awaited, the response is returned while the entry is still
\* to be written.
PutReturn(h) ==
    [Called(h, <<"put">>) EXCEPT !.pc = "put", !.result = h.networkResponse]

\* The put under a key of its own for every event, as a cache-busting
\* `request.url + '?t=' + Date.now()` would make it.
PutEntryStamped(h) ==
    [key  |-> [h.request.url EXCEPT !.search = "?t=" \o ToString(h.id)],
     resp |-> h.networkResponse]

\* `cache.put(request, networkResponse.clone())`: the entry the put writes,
\* the response fetched under the request of the event.
PutEntry(h) == [key |-> h.request.url, resp |-> h.networkResponse]

Unchanged(h, cs) == [h |-> h, cs |-> cs]

\* The catch block is entered with `error`, up to its
\* `await caches.match(request)`.
Catch(h, cs, error) ==
    [Match(h, cs, h.request.url, "lookup") EXCEPT !.error = error]

\* handleStaticAsset gone network-first: the fetch is issued without a lookup.
handleStaticAssetNetworkFirst(h, cs) == Fetch(h)

\* handleStaticAsset, from its start to `await caches.match(request)`
handleStaticAsset(h, cs) == Match(h, cs, h.request.url, "match")

\* handleStaticAsset, from the settling of the lookup to `await fetch(request)`
handleStaticAssetMatched(h) ==
    IF IsResponse(h.found) THEN Return(h, h.found) ELSE Fetch(h)

\* handleStaticAsset storing what it fetched in the dynamic tier.
handleStaticAssetFetchedDynamic(h, cs, nid, outcome) ==
    IF IsResponse(outcome)
    THEN IF Ok(outcome)
         THEN Open(h, cs, nid, DYNAMIC_CACHE)
         ELSE Unchanged(Return(h, outcome), cs)
    ELSE Unchanged(Catch(h, cs, outcome), cs)

\* handleStaticAsset, once fetch(request) has settled with `outcome`
handleStaticAssetFetched(h, cs, nid, outcome) ==
    IF IsResponse(outcome)
    THEN IF Ok(outcome)
         THEN Open(h, cs, nid, STATIC_CACHE)
         ELSE Unchanged(Return(h, outcome), cs)
    ELSE Unchanged(Catch(h, cs, outcome), cs)

\* handleStaticAsset: its catch block, once the lookup has settled
handleStaticAssetCaught(h, cs) ==
    IF IsResponse(h.found) THEN Return(h, h.found)
    ELSE IF h.request.mode = "navigate"
    THEN Match(h, cs, UrlOffline, "fallback")
    ELSE Return(h, h.error)

\* handleStaticAsset: `return caches.match('/offline.html')` settles
handleStaticAssetFallback(h) == Return(h, h.found)

\* handleAPIRequest gone cache-first: a cached copy is served without a fetch.
handleAPIRequestCacheFirst(h, cs) == Match(h, cs, h.request.url, "match")

\* handleAPIRequest, from its start to `await fetch(request)`
handleAPIRequest(h, cs) == Fetch(h)

\* handleAPIRequest, once fetch(request) has settled with `outcome`
handleAPIRequestFetched(h, cs, nid, outcome) ==
    IF IsResponse(outcome)
    THEN IF Ok(outcome) /\ h.request.method = "GET"
         THEN Open(h, cs, nid, DYNAMIC_CACHE)
         ELSE Unchanged(Return(h, outcome), cs)
    ELSE Unchanged(Catch(h, cs, outcome), cs)

\* handleAPIRequest without its synthesized response: a failure with no
\* cached copy is thrown again.
handleAPIRequestCaughtRethrows(h) ==
    IF IsResponse(h.found) THEN Return(h, h.found) ELSE Return(h, h.error)

\* handleAPIRequest: its catch block, once the lookup has settled
handleAPIRequestCaught(h) ==
    IF IsResponse(h.found) THEN Return(h, h.found)
    ELSE Return(h, OfflineApiResponse)

\* handleHeritageContent, from its start to `await caches.match(request)`
handleHeritageContent(h, cs) == Match(h, cs, h.request.url, "match")

\* handleHeritageContent, from the settling of the lookup to
\* `await fetch(request)`
handleHeritageContentMatched(h) ==
    IF IsResponse(h.found) THEN Return(h, h.found) ELSE Fetch(h)

\* handleHeritageContent whose catch block rethrows without a lookup.
handleHeritageContentFetchedNoLookup(h, cs, nid, outcome) ==
    IF IsResponse(outcome)
    THEN IF Ok(outcome)
         THEN Open(h, cs, nid, HERITAGE_CACHE)
         ELSE Unchanged(Return(h, outcome), cs)
    ELSE Unchanged(Return(h, outcome), cs)

\* handleHeritageContent, once fetch(request) has settled with `outcome`
handleHeritageContentFetched(h, cs, nid, outcome) ==
    IF IsResponse(outcome)
    THEN IF Ok(outcome)
         THEN Open(h, cs, nid, HERITAGE_CACHE)
         ELSE Unchanged(Return(h, outcome), cs)
    ELSE Unchanged(Catch(h, cs, outcome), cs)

\* handleHeritageContent: its catch block, once the lookup has settled
handleHeritageContentCaught(h) ==
    IF IsResponse(h.found) THEN Return(h, h.found) ELSE Return(h, h.error)

\* handleNavigation, from its start to `await fetch(request)`
handleNavigation(h, cs) == Fetch(h)

\* handleNavigation, once fetch(request) has settled with `outcome`: the
\* catch block looks '/index.html' up.
handleNavigationFetched(h, cs, nid, outcome) ==
    IF IsResponse(outcome)
    THEN Unchanged(Return(h, outcome), cs)
    ELSE Unchanged([Match(h, cs, UrlShell, "lookup") EXCEPT !.error = outcome],
                   cs)

\* handleNavigation: its catch block, once the lookup of '/index.html' has
\* settled, to `caches.match('/offline.html')`
handleNavigationCaught(h, cs) ==
    IF IsResponse(h.found) THEN Return(h, h.found)
    ELSE Match(h, cs, UrlOffline, "fallback")

\* handleNavigation: `return caches.match('/offline.html') || new Response(...)`.
\* The left operand is a Promise object, which is truthy whatever it will
\* resolve with: the expression is the promise, and the handler resolves with
\* what the lookup finds, Undefined on a miss.
handleNavigationFallback(h) == Return(h, h.found)

\* handleDefault, from its start to `await fetch(request)`
handleDefault(h, cs) == Fetch(h)

\* handleDefault storing what it fetched in the heritage tier.
handleDefaultFetchedHeritage(h, cs, nid, outcome) ==
    IF IsResponse(outcome)
    THEN IF Ok(outcome)
         THEN Open(h, cs, nid, HERITAGE_CACHE)
         ELSE Unchanged(Return(h, outcome), cs)
    ELSE Unchanged(Catch(h, cs, outcome), cs)

\* handleDefault without the `networkResponse.ok` test: every response is
\* stored.
handleDefaultFetchedStoresAll(h, cs, nid, outcome) ==
    IF IsResponse(outcome)
    THEN Open(h, cs, nid, DYNAMIC_CACHE)
    ELSE Unchanged(Catch(h, cs, outcome), cs)

\* handleDefault, once fetch(request) has settled with `outcome`
handleDefaultFetched(h, cs, nid, outcome) ==
    IF IsResponse(outcome)
    THEN IF Ok(outcome)
         THEN Open(h, cs, nid, DYNAMIC_CACHE)
         ELSE Unchanged(Return(h, outcome), cs)
    ELSE Unchanged(Catch(h, cs, outcome), cs)

\* handleDefault answering a failed fetch the way handleAPIRequest does, with
\* a synthesized response.
handleDefaultCaughtSynthesizes(h) ==
    IF IsResponse(h.found) THEN Return(h, h.found)
    ELSE Return(h, OfflineApiResponse)

\* handleDefault: its catch block, once the lookup has settled
handleDefaultCaught(h) ==
    IF IsResponse(h.found) THEN Return(h, h.found) ELSE Return(h, h.error)

\* handleFetchRequest(request): the strategy is chosen and runs to its first
\* awaited call.
handleFetchRequest(h0, cs) ==
    LET h == [h0 EXCEPT !.strategy = Strategy(h0.request)]
    IN  CASE h.strategy = "static" -> handleStaticAsset(h, cs)
          [] h.strategy = "api" -> handleAPIRequest(h, cs)
          [] h.strategy = "heritage" -> handleHeritageContent(h, cs)
          [] h.strategy = "navigation" -> handleNavigation(h, cs)
          [] OTHER -> handleDefault(h, cs)

\* The strategy of h, once the lookup it opened with has settled.
Matched(h) ==
    IF h.strategy = "static" THEN handleStaticAssetMatched(h)
    ELSE handleHeritageContentMatched(h)

\* The strategy of h, once its fetch has settled with `outcome`.
Fetched(h, cs, nid, outcome) ==
    CASE h.strategy = "static" -> handleStaticAssetFetched(h, cs, nid, outcome)
      [] h.strategy = "api" -> handleAPIRequestFetched(h, cs, nid, outcome)
      [] h.strategy = "heritage" -> handleHeritageContentFetched(h, cs, nid, outcome)
      [] h.strategy = "navigation" -> handleNavigationFetched(h, cs, nid, outcome)
      [] OTHER -> handleDefaultFetched(h, cs, nid, outcome)

\* The catch block of the strategy of h, once its lookup has settled.
LookedUp(h, cs) ==
    CASE h.strategy = "static" -> handleStaticAssetCaught(h, cs)
      [] h.strategy = "api" -> handleAPIRequestCaught(h)
      [] h.strategy = "heritage" -> handleHeritageContentCaught(h)
      [] h.strategy = "navigation" -> handleNavigationCaught(h, cs)
      [] OTHER -> handleDefaultCaught(h)

Fallback(h) ==
    IF h.strategy = "static" THEN handleStaticAssetFallback(h)
    ELSE handleNavigationFallback(h)

\* `await caches.open(tier)` is issued and will reject with `error`: no cache
\* is made.
OpenFailed(h, error) ==
    [Called(h, <<"open">>) EXCEPT !.pc = "open", !.rejection = error]

\* The strategy of h, once its caches.open has settled: the put is issued and
\* the response returned; a rejection is thrown inside the try, so that the
\* catch block of the strategy runs with the storage's error.
Opened(h, cs) ==
    IF h.rejection # Undefined THEN Catch(h, cs, h.rejection)
    ELSE PutReturn(h)

\* A strategy whose cache.put rejects: the promise of the put is dropped, the
\* handler has returned networkResponse already and nothing is written.
PutFailed(h) == [h EXCEPT !.pc = "done"]

---------------------------------------------------------------------------
(* The size governor: manageCacheSize *)

IdleGov ==
    [pc |-> "idle", usage |-> 0, cache |-> 0, requests |-> <<>>,
     deleted |-> <<>>, rejection |-> Undefined, error |-> Undefined]

\* The ceiling test turned into `estimate.usage > 0`.
ExceedsZero(usage) == usage > 0

\* estimate.usage > MAX_CACHE_SIZE
ExceedsCeiling(usage) == usage > MAX_CACHE_SIZE

\* Math.ceil(requests.length * 0.2)
DeleteCountCeil(length) == (length * 2 + 9) \div 10

\* Math.floor(requests.length * 0.2)
DeleteCount(length) == (length * 2) \div 10

\* requests.slice(0, deleteCount)
Oldest(requests) == SubSeq(requests, 1, DeleteCount(Len(requests)))

\* The entries of the Cache object `id`, among the Cache objects `cs`.
EntriesOf(cs, id) ==
    IF \E i \in 1..Len(cs) : cs[i].id = id
    THEN cs[CHOOSE i \in 1..Len(cs) : cs[i].id = id].entries
    ELSE <<>>

RECURSIVE DeleteAll(_, _, _)
DeleteAll(cs, id, keys) ==
    IF keys = <<>> THEN cs
    ELSE DeleteAll(CacheDelete(cs, id, Head(keys)), id, Tail(keys))

\* manageCacheSize evicting from the static tier.
manageCacheSizeEstimatedStatic(g, cs, nid, usage) ==
    IF ExceedsCeiling(usage)
    THEN [g  |-> [g EXCEPT !.pc = "open", !.usage = usage,
                           !.cache = OpenedId(cs, STATIC_CACHE, nid)],
          cs |-> CachesOpen(cs, STATIC_CACHE, nid)]
    ELSE [g |-> [g EXCEPT !.pc = "done", !.usage = usage], cs |-> cs]

\* manageCacheSize, once navigator.storage.estimate() has settled with `usage`
manageCacheSizeEstimated(g, cs, nid, usage) ==
    IF ExceedsCeiling(usage)
    THEN [g  |-> [g EXCEPT !.pc = "open", !.usage = usage,
                           !.cache = OpenedId(cs, DYNAMIC_CACHE, nid)],
          cs |-> CachesOpen(cs, DYNAMIC_CACHE, nid)]
    ELSE [g |-> [g EXCEPT !.pc = "done", !.usage = usage], cs |-> cs]

\* manageCacheSize: `const requests = await dynamicCache.keys()` is issued on
\* the Cache object the run holds, among the Cache objects `cs`.
manageCacheSizeKeys(g, cs) ==
    [g EXCEPT !.pc = "keys", !.requests = Keys(EntriesOf(cs, g.cache))]

\* manageCacheSize: the deletes of requests.slice(0, deleteCount) are issued
manageCacheSizeEvict(g) ==
    [g EXCEPT !.pc = "evict", !.deleted = Oldest(g.requests)]

\* What a storage call rejects with.
StorageError == [kind |-> "error", name |-> "UnknownError"]

\* manageCacheSize without its try / catch: the run ends on the error.
Uncaught(g, error) == [g EXCEPT !.pc = "failed", !.error = error]

\* manageCacheSize: `catch (error) { console.log(...) }` ends the run.
Caught(g, error) == [g EXCEPT !.pc = "done", !.error = error]

\* manageCacheSize, once navigator.storage.estimate() has rejected
manageCacheSizeEstimateFailed(g, error) == Caught(g, error)

\* manageCacheSize: the deletes of requests.slice(0, deleteCount) are issued,
\* the one of `failed` rejecting.  The deletes are issued together: the others
\* remove their entries although Promise.all rejects.
manageCacheSizeEvictFailed(g, failed, error) ==
    [g EXCEPT !.pc = "evict", !.rejection = error,
              !.deleted = SelectSeq(Oldest(g.requests), LAMBDA k : k # failed)]

\* manageCacheSize, once the Promise.all of the deletes has settled
manageCacheSizeEvicted(g) ==
    IF g.rejection # Undefined THEN Caught(g, g.rejection)
    ELSE [g EXCEPT !.pc = "done"]

---------------------------------------------------------------------------
(* Control messages: clearAllCaches, cacheHeritageSite and getCacheStatus.  *)
(* The message listener starts a run for every message it receives; the    *)
(* runs of different messages overlap.                                     *)

IdleClear == [pc |-> "idle", cacheNames |-> <<>>]

\* getCacheStatus: `status` is the object built so far, as the sequence of
\* its <<cacheName, keys.length>> pairs; `posted` the values given to
\* event.ports[0].postMessage.
IdleStatus ==
    [pc |-> "idle", cacheNames |-> <<>>, pos |-> 0, cache |-> 0, length |-> 0,
     status |-> <<>>, posted |-> <<>>]

\* The Cache objects a running function holds and has still to use: the
\* handlers that wait for caches.open or for their put, the governor from its
\* caches.open on, the site downloads while they run, the status queries that
\* wait for caches.open, the installation.
Held(hs, g, bs, sts, su) ==
    {hs[s].cache : s \in {t \in DOMAIN hs : hs[t].pc \in {"open", "put"}}}
        \cup (IF g.pc \in {"open", "keys", "evict"} THEN {g.cache} ELSE {})
        \cup {bs[s].cache :
                 s \in {t \in DOMAIN bs : bs[t].pc \in {"open", "run"}}}
        \cup {sts[s].cache : s \in {t \in DOMAIN sts : sts[t].pc = "open"}}
        \cup (IF su.pc \in {"open", "addAll"} THEN {su.cache} ELSE {})

\* caches.delete(name) for each of `names` removes the cache from the storage;
\* a Cache object stays functional for the functions that hold it.
Detached(cs, names, held) ==
    SelectSeq(cs, LAMBDA c : c.id \in held
                             /\ \E i \in 1..Len(names) : names[i] = c.name)

Names(cs) == [i \in 1..Len(cs) |-> cs[i].name]

\* clearAllCaches deleting the first cache of the list only.
DeleteCachesFirst(cs, names) ==
    IF names = <<>> THEN cs ELSE CachesDelete(cs, Head(names))

RECURSIVE DeleteCaches(_, _)
DeleteCaches(cs, names) ==
    IF names = <<>> THEN cs
    ELSE DeleteCaches(CachesDelete(cs, Head(names)), Tail(names))

\* getCacheStatus to `await caches.keys()`: the names are those of the
\* storage when the call is issued.
getCacheStatus(cs) == [IdleStatus EXCEPT !.pc = "keys", !.cacheNames = Names(cs)]

\* getCacheStatus at the head of its loop for the name at `pos`:
\* `await caches.open(cacheName)` is issued, which creates the cache when
\* the storage has none of that name; past the last name `return status`,
\* which the listener posts to the port of the message.
getCacheStatusNext(run, cs, nid, pos) ==
    IF pos > Len(run.cacheNames)
    THEN [run |-> [run EXCEPT !.pc = "done", !.posted = <<run.status>>],
          cs  |-> cs]
    ELSE [run |-> [run EXCEPT
                      !.pc = "open", !.pos = pos,
                      !.cache = OpenedId(cs, run.cacheNames[pos], nid)],
          cs  |-> CachesOpen(cs, run.cacheNames[pos], nid)]

\* getCacheStatus after `await caches.keys()`.
getCacheStatusListed(run, cs, nid) == getCacheStatusNext(run, cs, nid, 1)

\* getCacheStatus after `await caches.open(cacheName)`: `await cache.keys()`
\* is issued on the Cache object opened, among the Cache objects `all`.
getCacheStatusOpened(run, all) ==
    [run EXCEPT !.pc = "count", !.length = Len(EntriesOf(all, run.cache))]

\* getCacheStatus after `await cache.keys()`:
\* `status[cacheName] = keys.length`, then the next name.
getCacheStatusCounted(run, cs, nid) ==
    getCacheStatusNext(
        [run EXCEPT
            !.status = Append(@, <<run.cacheNames[run.pos], run.length>>)],
        cs, nid, run.pos + 1)

\* The payloads pages send with CACHE_HERITAGE_SITE.
SitePayloads == {
    [id |-> "bateshwar", imageUrl |-> UrlImage, thumbnailUrl |-> NoUrl,
     modelUrl |-> UrlModel, audioUrls |-> <<>>] }

\* [imageUrl, thumbnailUrl, modelUrl, ...audioUrls || []].filter(Boolean)
UrlsToCache(siteData) ==
    SelectSeq(<<siteData.imageUrl, siteData.thumbnailUrl, siteData.modelUrl>>
                  \o siteData.audioUrls,
              LAMBDA u : u # NoUrl)

IdleBundle ==
    [pc |-> "idle", id |-> 0, cache |-> 0, urls |-> <<>>, items |-> <<>>]

\* cacheHeritageSite with the test of response.ok inverted.
BundleItemFetchedUnlessOk(item, outcome) ==
    IF IsResponse(outcome) /\ ~Ok(outcome)
    THEN [item EXCEPT !.state = "put", !.response = outcome]
    ELSE [item EXCEPT !.state = "done"]

\* What cacheHeritageSite does with the settled fetch of one URL:
\* `if (response.ok) return cache.put(url, response)`, a rejection is logged.
BundleItemFetched(item, outcome) ==
    IF IsResponse(outcome) /\ Ok(outcome)
    THEN [item EXCEPT !.state = "put", !.response = outcome]
    ELSE [item EXCEPT !.state = "done"]

AllDone(items) == \A i \in 1..Len(items) : items[i].state = "done"

---------------------------------------------------------------------------
(* Installation and activation *)

\* What the origins answer to cache.addAll(STATIC_ASSETS): every asset is
\* served, or one of them fails (a rejection or an error status).
InstallAnswers ==
    LET served == [i \in 1..Len(STATIC_ASSETS) |->
                      Response(200, AssetUrls[i], 0, "origin")]
    IN  {served} \cup
        {[served EXCEPT ![i] = bad] :
            i \in 1..Len(STATIC_ASSETS),
            bad \in {NetworkError, Response(404, NoUrl, 0, "origin")}}

\* An installation that tolerates assets it could not fetch.
AddAllTolerant(answers) ==
    \E i \in 1..Len(answers) : IsResponse(answers[i]) /\ Ok(answers[i])

\* cache.addAll: rejects, storing nothing, unless every response is ok.
AddAllSucceeds(answers) ==
    \A i \in 1..Len(answers) : IsResponse(answers[i]) /\ Ok(answers[i])

RECURSIVE PutAll(_, _, _, _)
PutAll(cs, id, keys, answers) ==
    IF keys = <<>> THEN cs
    ELSE PutAll(CachePut(cs, id, Head(keys), Head(answers)), id,
                Tail(keys), Tail(answers))

\* The progress of the install and activate listeners: the call that
\* event.waitUntil waits for, the Cache object caches.open resolved with and
\* the names caches.keys resolved with.
IdleStartup == [pc |-> "idle", cache |-> 0, cacheNames |-> <<>>]

\* The activate listener keeps the three tiers of this build.
IsCurrentTier(cacheName) ==
    cacheName \in {STATIC_CACHE, DYNAMIC_CACHE, HERITAGE_CACHE}

---------------------------------------------------------------------------
(* Background sync: syncHeritageData, syncUserFeedback, syncAnalytics.      *)
(* The three store helpers of the source are placeholders: getStoredData   *)
(* resolves with an empty array whatever the store, removeStoredData and   *)
(* clearStoredData log a line and store nothing.  The worker keeps no      *)
(* queue: what a pass delivers is what getStoredData resolved with.  A     *)
(* flush pass is the record                                                *)
(*   pc       "idle", or the call the pass waits for: "read"                *)
(*            (getStoredData), "fetch", "remove" (removeStoredData),        *)
(*            "clear" (clearStoredData); "done"                             *)
(*   id       the number of the sync event                                  *)
(*   tag      the tag of the sync event                                     *)
(*   pending  what getStoredData resolved with                              *)
(*   pos      the index in `pending` of the item being delivered            *)
(*   sent     the delivery requests issued, in order, each with what its    *)
(*            fetch settled with (Pending until then)                       *)

HERITAGE_SYNC == "heritage-data-sync"

FEEDBACK_SYNC == "user-feedback-sync"

ANALYTICS_SYNC == "analytics-sync"

SyncTags == {HERITAGE_SYNC, FEEDBACK_SYNC, ANALYTICS_SYNC}

StoreOf(tag) ==
    CASE tag = HERITAGE_SYNC -> "heritage-updates"
      [] tag = FEEDBACK_SYNC -> "pending-feedback"
      [] tag = ANALYTICS_SYNC -> "pending-analytics"

EndpointOf(tag) ==
    CASE tag = HERITAGE_SYNC -> Local("/api/heritage/sync")
      [] tag = FEEDBACK_SYNC -> Local("/api/feedback")
      [] tag = ANALYTICS_SYNC -> Local("/api/analytics/events")

\* `return [];`: the empty array, whatever the store.
getStoredData(storeName) == <<>>

IdleSync ==
    [pc |-> "idle", id |-> 0, tag |-> "", pending |-> <<>>, pos |-> 0,
     sent |-> <<>>]

\* `await removeStoredData(storeName, id)` is issued: a line is logged,
\* nothing is stored or removed.
removeStoredData(run, storeName, id) == [run EXCEPT !.pc = "remove"]

\* `await clearStoredData(storeName)` is issued: a line is logged, nothing
\* is stored or removed.
clearStoredData(run, storeName) == [run EXCEPT !.pc = "clear"]

\* `await fetch(url, {method: 'POST', ..., body: JSON.stringify(body)})` issued.
Post(run, url, body) ==
    [run EXCEPT !.pc = "fetch",
                !.sent = Append(@, [url |-> url, body |-> body,
                                    outcome |-> Pending])]

\* The delivery in flight settles with `outcome`.
Settle(run, outcome) == [run EXCEPT !.sent[Len(run.sent)].outcome = outcome]

\* `for (const data of pendingData)`: the delivery of the item at `pos` is
\* issued, or the loop ends.
syncNext(run, pos) ==
    IF pos > Len(run.pending) THEN [run EXCEPT !.pc = "done", !.pos = pos]
    ELSE Post([run EXCEPT !.pos = pos], EndpointOf(run.tag), run.pending[pos])

\* A flush pass from its start to `await getStoredData(storeName)`.
syncRead(id, tag) ==
    [IdleSync EXCEPT !.pc = "read", !.id = id, !.tag = tag,
                     !.pending = getStoredData(StoreOf(tag))]

\* syncHeritageData / syncUserFeedback from the settling of getStoredData.
syncItems(run) == syncNext(run, 1)

\* syncHeritageData / syncUserFeedback from the settling of a delivery: a
\* fetch that resolves, whatever its status, is followed by
\* `await removeStoredData(...)`; a rejection is caught and logged, and the
\* loop goes on.
syncItemSettled(run, outcome) ==
    IF IsResponse(outcome)
    THEN removeStoredData(Settle(run, outcome), StoreOf(run.tag),
                          run.pending[run.pos].id)
    ELSE syncNext(Settle(run, outcome), run.pos + 1)

\* syncHeritageData / syncUserFeedback from the settling of removeStoredData:
\* the loop goes on.
syncItemRemoved(run) == syncNext(run, run.pos + 1)

\* syncAnalytics from the settling of getStoredData: one request with every
\* pending event, none for an empty array.
syncAnalytics(run) ==
    IF Len(run.pending) > 0
    THEN Post(run, EndpointOf(ANALYTICS_SYNC), run.pending)
    ELSE [run EXCEPT !.pc = "done"]

\* syncAnalytics from the settling of its request: a fetch that resolves is
\* followed by `await clearStoredData(...)`; a rejection is caught and logged.
syncAnalyticsSettled(run, outcome) ==
    IF IsResponse(outcome)
    THEN clearStoredData(Settle(run, outcome), StoreOf(ANALYTICS_SYNC))
    ELSE [Settle(run, outcome) EXCEPT !.pc = "done"]

\* What the origin answers to a delivery: accepted, refused, or unreachable.
DeliveryStatuses == {200, 500}

DeliveryOutcomes(url, ver) ==
    {Response(st, url, ver, "origin") : st \in DeliveryStatuses}
        \cup {NetworkError}

---------------------------------------------------------------------------
(* Push notifications.  The notifications of the worker share the tag      *)
(* 'heritage-update', so that one is on display at most.  `event` is the   *)
(* data of the push message that raised it.  URLs are kept as strings.     *)

DEFAULT_BODY == "New heritage content available!"

DEFAULT_URL == "/#heritage-sites"

\* The value of a key the object does not have (no body or URL is this
\* string).
Absent == "undefined"

NoData == [kind |-> "none"]

InvalidJson == [kind |-> "invalid"]

Payload(body, url) == [kind |-> "json", body |-> body, url |-> url]

\* event.data of the push messages: none, text that is not JSON, and objects
\* {body, data: {url}} with and without each key, the body and the URL
\* possibly empty.
PushData ==
    {NoData, InvalidJson} \cup
    {Payload(body, url) :
        body \in {Absent, "", "Udaygiri caves added"},
        url \in {Absent, "", "/#tours"}}

NoNotification ==
    [shown |-> FALSE, body |-> "", url |-> Absent, event |-> NoData]

\* The options the push listener passes to showNotification:
\* body = payload.body || options.body (an empty body is falsy), data =
\* {...options.data, ...payload.data}; without data, or when json() throws,
\* the defaults.
Options(data) ==
    IF data.kind = "json"
    THEN [body |-> IF data.body = Absent \/ data.body = ""
                   THEN DEFAULT_BODY ELSE data.body,
          url  |-> IF data.url = Absent THEN DEFAULT_URL ELSE data.url]
    ELSE [body |-> DEFAULT_BODY, url |-> DEFAULT_URL]

\* The actions a click carries: a button of the notification, or none.
ClickActions == {"explore", "dismiss", ""}

\* The notificationclick listener opening a window whatever was clicked.
OpensAlways(action) == TRUE

\* event.action === 'explore' || !event.action
Opens(action) == action = "explore" \/ action = ""

\* event.notification.data.url || '/'
Target(url) == IF url = "" \/ url = Absent THEN "/" ELSE url

---------------------------------------------------------------------------
(* The state machine *)

\* A fetch handler is known by the number of its event.
Slots == 1..MaxEvents

\* The storage a worker of this build can find when its script is first run:
\* nothing, or the static tier of the previous build.
InitialStorages == {
    <<>>,
    << [name |-> OLD_STATIC_CACHE, id |-> 1,
        entries |-> << [key |-> UrlShell,
                        resp |-> Response(200, UrlShell, 0, "origin")] >>] >> }

Init ==
    /\ lifecycle = "parsed"
    /\ startup = IdleStartup
    /\ caches \in InitialStorages
    /\ detached = <<>>
    /\ nextCacheId = Len(caches) + 1
    /\ handlers = [s \in Slots |-> IdleHandler]
    /\ unhandled = NoRequest
    /\ gov = IdleGov
    /\ bundle = [s \in Slots |-> IdleBundle]
    /\ clearing = [s \in Slots |-> IdleClear]
    /\ cacheStatus = [s \in Slots |-> IdleStatus]
    /\ nEvents = 0
    /\ syncs = [s \in Slots |-> IdleSync]
    /\ notification = NoNotification
    /\ windows = <<>>

\* The identity for the next Cache object, after a step from cs to cs2.
NextId(cs, cs2, nid) == IF Len(cs2) > Len(cs) THEN nid + 1 ELSE nid

\* The install listener: caches.open(STATIC_CACHE) is issued and skipWaiting()
\* called, under event.waitUntil.
InstallEvent ==
    /\ lifecycle = "parsed"
    /\ lifecycle' = "installing"
    /\ caches' = CachesOpen(caches, STATIC_CACHE, nextCacheId)
    /\ nextCacheId' = NextId(caches, caches', nextCacheId)
    /\ startup' = [IdleStartup EXCEPT
                      !.pc = "open",
                      !.cache = OpenedId(caches, STATIC_CACHE, nextCacheId)]
    /\ UNCHANGED syncVars
    /\ UNCHANGED pushVars
    /\ UNCHANGED <<detached, handlers, unhandled, gov, bundle, clearing, cacheStatus,
                   nEvents>>

\* caches.open(STATIC_CACHE) settles: cache.addAll(STATIC_ASSETS) is issued.
InstallOpened ==
    /\ lifecycle = "installing"
    /\ startup.pc = "open"
    /\ startup' = [startup EXCEPT !.pc = "addAll"]
    /\ UNCHANGED syncVars
    /\ UNCHANGED pushVars
    /\ UNCHANGED <<lifecycle, caches, detached, nextCacheId, handlers,
                   unhandled, gov, bundle, clearing, cacheStatus, nEvents>>

\* cache.addAll(STATIC_ASSETS) settles, and with it the promise of waitUntil.
InstallSettles(answers) ==
    /\ lifecycle = "installing"
    /\ startup.pc = "addAll"
    /\ startup' = [startup EXCEPT !.pc = "done"]
    /\ IF AddAllSucceeds(answers)
       THEN /\ caches' = PutAll(caches, startup.cache, AssetUrls, answers)
            /\ detached' = PutAll(detached, startup.cache, AssetUrls, answers)
            /\ lifecycle' = "installed"
       ELSE /\ UNCHANGED <<caches, detached>>
            /\ lifecycle' = "redundant"
    /\ UNCHANGED syncVars
    /\ UNCHANGED pushVars
    /\ UNCHANGED <<nextCacheId, handlers, unhandled, gov, bundle, clearing, cacheStatus,
                   nEvents>>

\* The activate listener: caches.keys() is issued and clients.claim() called,
\* under event.waitUntil.
ActivateEvent ==
    /\ lifecycle = "installed"
    /\ lifecycle' = "activating"
    /\ startup' = [startup EXCEPT !.pc = "keys", !.cacheNames = Names(caches)]
    /\ UNCHANGED syncVars
    /\ UNCHANGED pushVars
    /\ UNCHANGED <<caches, detached, nextCacheId, handlers, unhandled, gov,
                   bundle, clearing, cacheStatus, nEvents>>

\* caches.keys() settles: caches.delete is issued for every name of the list
\* that is not a tier of this build.
ActivateDeletes ==
    /\ lifecycle = "activating"
    /\ startup.pc = "keys"
    /\ LET old == SelectSeq(startup.cacheNames,
                            LAMBDA cacheName : ~IsCurrentTier(cacheName))
       IN  /\ caches' = DeleteCaches(caches, old)
           /\ detached' = detached \o
                  Detached(caches, old, Held(handlers, gov, bundle, cacheStatus, startup))
    /\ startup' = [startup EXCEPT !.pc = "delete"]
    /\ UNCHANGED syncVars
    /\ UNCHANGED pushVars
    /\ UNCHANGED <<lifecycle, nextCacheId, handlers, unhandled, gov, bundle,
                   clearing, cacheStatus, nEvents>>

\* The deletes and clients.claim() settle, and with them the promise of
\* waitUntil.
ActivateSettles ==
    /\ lifecycle = "activating"
    /\ startup.pc = "delete"
    /\ startup' = [startup EXCEPT !.pc = "done"]
    /\ lifecycle' = "activated"
    /\ UNCHANGED syncVars
    /\ UNCHANGED pushVars
    /\ UNCHANGED <<caches, detached, nextCacheId, handlers, unhandled, gov,
                   bundle, clearing, cacheStatus, nEvents>>

\* The fetch listener, and handleFetchRequest up to its first awaited call.
FetchEvent(request) ==
    /\ lifecycle = "activated"
    /\ nEvents < MaxEvents
    /\ IF Responds(request)
       THEN /\ handlers' = [handlers EXCEPT ![nEvents + 1] =
                    handleFetchRequest(NewHandler(nEvents + 1, request), caches)]
            /\ UNCHANGED unhandled
       ELSE /\ unhandled' = request
            /\ UNCHANGED handlers
    /\ nEvents' = nEvents + 1
    /\ UNCHANGED syncVars
    /\ UNCHANGED pushVars
    /\ UNCHANGED <<lifecycle, startup, caches, detached, nextCacheId, gov,
                   bundle, clearing, cacheStatus>>

\* The caches.match(request) that opens a cache-first strategy settles.
MatchSettles(s) ==
    /\ handlers[s].pc = "match"
    /\ handlers' = [handlers EXCEPT ![s] = Matched(handlers[s])]
    /\ UNCHANGED syncVars
    /\ UNCHANGED pushVars
    /\ UNCHANGED <<lifecycle, startup, caches, detached, nextCacheId,
                   unhandled, gov, bundle, clearing, cacheStatus, nEvents>>

\* fetch(request) settles.
FetchSettles(s, outcome) ==
    /\ handlers[s].pc = "fetch"
    /\ LET after == Fetched([handlers[s] EXCEPT !.networkResponse = outcome],
                            caches, nextCacheId, outcome)
       IN  /\ handlers' = [handlers EXCEPT ![s] = after.h]
           /\ caches' = after.cs
           /\ nextCacheId' = NextId(caches, after.cs, nextCacheId)
    /\ UNCHANGED syncVars
    /\ UNCHANGED pushVars
    /\ UNCHANGED <<lifecycle, startup, detached, unhandled, gov, bundle,
                   clearing, cacheStatus, nEvents>>

\* caches.open(tier) settles.
OpenSettles(s) ==
    /\ handlers[s].pc = "open"
    /\ handlers' = [handlers EXCEPT ![s] = Opened(handlers[s], caches)]
    /\ UNCHANGED syncVars
    /\ UNCHANGED pushVars
    /\ UNCHANGED <<lifecycle, startup, caches, detached, nextCacheId,
                   unhandled, gov, bundle, clearing, cacheStatus, nEvents>>

\* The caches.match of a catch block settles.
LookupSettles(s) ==
    /\ handlers[s].pc = "lookup"
    /\ handlers' = [handlers EXCEPT ![s] = LookedUp(handlers[s], caches)]
    /\ UNCHANGED syncVars
    /\ UNCHANGED pushVars
    /\ UNCHANGED <<lifecycle, startup, caches, detached, nextCacheId,
                   unhandled, gov, bundle, clearing, cacheStatus, nEvents>>

\* The lookup of /offline.html that ends a failed navigation settles.
FallbackStep(s) ==
    /\ handlers[s].pc = "fallback"
    /\ handlers' = [handlers EXCEPT ![s] = Fallback(handlers[s])]
    /\ UNCHANGED syncVars
    /\ UNCHANGED pushVars
    /\ UNCHANGED <<lifecycle, startup, caches, detached, nextCacheId,
                   unhandled, gov, bundle, clearing, cacheStatus, nEvents>>

\* cache.put(request, networkResponse.clone()) commits, on the Cache object
\* the handler holds.
PutCommits(s) ==
    /\ handlers[s].pc = "put"
    /\ caches' = CachePut(caches, handlers[s].cache,
                          PutEntry(handlers[s]).key, PutEntry(handlers[s]).resp)
    /\ detached' = CachePut(detached, handlers[s].cache,
                            PutEntry(handlers[s]).key,
                            PutEntry(handlers[s]).resp)
    /\ handlers' = [handlers EXCEPT ![s].pc = "done"]
    /\ UNCHANGED syncVars
    /\ UNCHANGED pushVars
    /\ UNCHANGED <<lifecycle, startup, nextCacheId, unhandled, gov, bundle,
                   clearing, cacheStatus, nEvents>>

\* setInterval(manageCacheSize, 60000) fires; the timer runs from the first
\* evaluation of the script.  A run takes far less than the interval: a tick
\* finds the previous run ended.
GovTick ==
    /\ lifecycle \in {"installing", "installed", "activating", "activated"}
    /\ nEvents < MaxEvents
    /\ gov.pc \in {"idle", "done"}
    /\ gov' = [IdleGov EXCEPT !.pc = "estimate"]
    /\ nEvents' = nEvents + 1
    /\ UNCHANGED syncVars
    /\ UNCHANGED pushVars
    /\ UNCHANGED <<lifecycle, startup, caches, detached, nextCacheId, handlers,
                   unhandled, bundle, clearing, cacheStatus>>

\* navigator.storage.estimate() settles.
GovEstimate(other) ==
    /\ gov.pc = "estimate"
    /\ LET after == manageCacheSizeEstimated(gov, caches, nextCacheId,
                                             CacheUsage(caches) + other)
       IN  /\ gov' = after.g
           /\ caches' = after.cs
           /\ nextCacheId' = NextId(caches, after.cs, nextCacheId)
    /\ UNCHANGED syncVars
    /\ UNCHANGED pushVars
    /\ UNCHANGED <<lifecycle, startup, detached, handlers, unhandled, bundle,
                   clearing, cacheStatus, nEvents>>

\* caches.open(DYNAMIC_CACHE) settles: dynamicCache.keys() is issued.
GovKeys ==
    /\ gov.pc = "open"
    /\ gov' = manageCacheSizeKeys(gov, caches \o detached)
    /\ UNCHANGED syncVars
    /\ UNCHANGED pushVars
    /\ UNCHANGED <<lifecycle, startup, caches, detached, nextCacheId, handlers,
                   unhandled, bundle, clearing, cacheStatus, nEvents>>

\* dynamicCache.keys() settles: the deletes are issued.
GovEvict ==
    /\ gov.pc = "keys"
    /\ gov' = manageCacheSizeEvict(gov)
    /\ caches' = DeleteAll(caches, gov.cache, gov'.deleted)
    /\ detached' = DeleteAll(detached, gov.cache, gov'.deleted)
    /\ UNCHANGED syncVars
    /\ UNCHANGED pushVars
    /\ UNCHANGED <<lifecycle, startup, nextCacheId, handlers, unhandled,
                   bundle, clearing, cacheStatus, nEvents>>

\* The deletes settle.
GovEvicted ==
    /\ gov.pc = "evict"
    /\ gov' = manageCacheSizeEvicted(gov)
    /\ UNCHANGED syncVars
    /\ UNCHANGED pushVars
    /\ UNCHANGED <<lifecycle, startup, caches, detached, nextCacheId, handlers,
                   unhandled, bundle, clearing, cacheStatus, nEvents>>

\* The worker receives messages from the moment it is installing: a page
\* can post to registration.installing, .waiting and .active.
Receives == lifecycle \in {"installing", "installed", "activating", "activated"}

\* message CLEAR_CACHE: clearAllCaches() to `await caches.keys()`
ClearMessage ==
    /\ Receives
    /\ nEvents < MaxEvents
    /\ clearing' = [clearing EXCEPT ![nEvents + 1] =
                        [pc |-> "keys", cacheNames |-> Names(caches)]]
    /\ nEvents' = nEvents + 1
    /\ UNCHANGED syncVars
    /\ UNCHANGED pushVars
    /\ UNCHANGED <<lifecycle, startup, caches, detached, nextCacheId, handlers,
                   unhandled, gov, bundle, cacheStatus>>

\* clearAllCaches: caches.keys() settles, and
\* cacheNames.map(cacheName => caches.delete(cacheName)) is issued.
ClearDeletes(s) ==
    /\ clearing[s].pc = "keys"
    /\ caches' = DeleteCaches(caches, clearing[s].cacheNames)
    /\ detached' = detached \o
           Detached(caches, clearing[s].cacheNames,
                    Held(handlers, gov, bundle, cacheStatus, startup))
    /\ clearing' = [clearing EXCEPT ![s].pc = "delete"]
    /\ UNCHANGED syncVars
    /\ UNCHANGED pushVars
    /\ UNCHANGED <<lifecycle, startup, nextCacheId, handlers, unhandled, gov,
                   bundle, cacheStatus, nEvents>>

\* clearAllCaches: the deletes settle.
ClearSettles(s) ==
    /\ clearing[s].pc = "delete"
    /\ clearing' = [clearing EXCEPT ![s].pc = "done"]
    /\ UNCHANGED syncVars
    /\ UNCHANGED pushVars
    /\ UNCHANGED <<lifecycle, startup, caches, detached, nextCacheId, handlers,
                   unhandled, gov, bundle, cacheStatus, nEvents>>

\* message GET_CACHE_STATUS: getCacheStatus() to `await caches.keys()`
StatusMessage ==
    /\ Receives
    /\ nEvents < MaxEvents
    /\ cacheStatus' = [cacheStatus EXCEPT ![nEvents + 1] =
                           getCacheStatus(caches)]
    /\ nEvents' = nEvents + 1
    /\ UNCHANGED syncVars
    /\ UNCHANGED pushVars
    /\ UNCHANGED <<lifecycle, startup, caches, detached, nextCacheId, handlers,
                   unhandled, gov, bundle, clearing>>

\* getCacheStatus: caches.keys() settles, and caches.open is issued for the
\* first name.
StatusListed(s) ==
    /\ cacheStatus[s].pc = "keys"
    /\ LET after == getCacheStatusListed(cacheStatus[s], caches, nextCacheId)
       IN  /\ cacheStatus' = [cacheStatus EXCEPT ![s] = after.run]
           /\ caches' = after.cs
           /\ nextCacheId' = NextId(caches, after.cs, nextCacheId)
    /\ UNCHANGED syncVars
    /\ UNCHANGED pushVars
    /\ UNCHANGED <<lifecycle, startup, detached, handlers, unhandled, gov,
                   bundle, clearing, nEvents>>

\* getCacheStatus: caches.open(cacheName) settles, and cache.keys() is
\* issued.
StatusOpened(s) ==
    /\ cacheStatus[s].pc = "open"
    /\ cacheStatus' = [cacheStatus EXCEPT ![s] =
                           getCacheStatusOpened(@, caches \o detached)]
    /\ UNCHANGED syncVars
    /\ UNCHANGED pushVars
    /\ UNCHANGED <<lifecycle, startup, caches, detached, nextCacheId, handlers,
                   unhandled, gov, bundle, clearing, nEvents>>

\* getCacheStatus: cache.keys() settles, and caches.open is issued for the
\* next name, or the status is posted.
StatusCounted(s) ==
    /\ cacheStatus[s].pc = "count"
    /\ LET after == getCacheStatusCounted(cacheStatus[s], caches, nextCacheId)
       IN  /\ cacheStatus' = [cacheStatus EXCEPT ![s] = after.run]
           /\ caches' = after.cs
           /\ nextCacheId' = NextId(caches, after.cs, nextCacheId)
    /\ UNCHANGED syncVars
    /\ UNCHANGED pushVars
    /\ UNCHANGED <<lifecycle, startup, detached, handlers, unhandled, gov,
                   bundle, clearing, nEvents>>

\* message CACHE_HERITAGE_SITE: cacheHeritageSite(payload) to
\* `await caches.open(HERITAGE_CACHE)`
BundleMessage(siteData) ==
    /\ Receives
    /\ nEvents < MaxEvents
    /\ caches' = CachesOpen(caches, HERITAGE_CACHE, nextCacheId)
    /\ nextCacheId' = NextId(caches, caches', nextCacheId)
    /\ bundle' = [bundle EXCEPT ![nEvents + 1] =
                      [IdleBundle EXCEPT
                          !.pc = "open", !.id = nEvents + 1,
                          !.cache = OpenedId(caches, HERITAGE_CACHE, nextCacheId),
                          !.urls = UrlsToCache(siteData)]]
    /\ nEvents' = nEvents + 1
    /\ UNCHANGED syncVars
    /\ UNCHANGED pushVars
    /\ UNCHANGED <<lifecycle, startup, detached, handlers, unhandled, gov,
                   clearing, cacheStatus>>

\* cacheHeritageSite: caches.open settles, and a fetch is issued for each URL.
BundleOpened(s) ==
    /\ bundle[s].pc = "open"
    /\ bundle' = [bundle EXCEPT ![s] =
                      [@ EXCEPT
                          !.pc = IF bundle[s].urls = <<>> THEN "done"
                                 ELSE "run",
                          !.items = [i \in 1..Len(bundle[s].urls) |->
                                        [url |-> bundle[s].urls[i],
                                         state |-> "fetch",
                                         response |-> Undefined]]]]
    /\ UNCHANGED syncVars
    /\ UNCHANGED pushVars
    /\ UNCHANGED <<lifecycle, startup, caches, detached, nextCacheId, handlers,
                   unhandled, gov, clearing, cacheStatus, nEvents>>

Finish(b) == IF AllDone(b.items) THEN [b EXCEPT !.pc = "done"] ELSE b

\* cacheHeritageSite: fetch(url) settles.
BundleFetchSettles(s, i, outcome) ==
    /\ bundle[s].pc = "run"
    /\ i \in 1..Len(bundle[s].items)
    /\ bundle[s].items[i].state = "fetch"
    /\ bundle' = [bundle EXCEPT ![s] =
                      Finish([@ EXCEPT !.items[i] = BundleItemFetched(@, outcome)])]
    /\ UNCHANGED syncVars
    /\ UNCHANGED pushVars
    /\ UNCHANGED <<lifecycle, startup, caches, detached, nextCacheId, handlers,
                   unhandled, gov, clearing, cacheStatus, nEvents>>

\* cacheHeritageSite: cache.put(url, response) commits, on the Cache object
\* the run holds.
BundlePutCommits(s, i) ==
    /\ bundle[s].pc = "run"
    /\ i \in 1..Len(bundle[s].items)
    /\ bundle[s].items[i].state = "put"
    /\ caches' = CachePut(caches, bundle[s].cache, bundle[s].items[i].url,
                          bundle[s].items[i].response)
    /\ detached' = CachePut(detached, bundle[s].cache, bundle[s].items[i].url,
                            bundle[s].items[i].response)
    /\ bundle' = [bundle EXCEPT ![s] =
                      Finish([@ EXCEPT !.items[i].state = "done"])]
    /\ UNCHANGED syncVars
    /\ UNCHANGED pushVars
    /\ UNCHANGED <<lifecycle, startup, nextCacheId, handlers, unhandled, gov,
                   clearing, cacheStatus, nEvents>>

Next ==
    \/ InstallEvent
    \/ InstallOpened
    \/ \E answers \in InstallAnswers : InstallSettles(answers)
    \/ ActivateEvent
    \/ ActivateDeletes
    \/ ActivateSettles
    \/ \E request \in Requests : FetchEvent(request)
    \/ \E s \in Slots : MatchSettles(s)
    \/ \E s \in Slots :
         \E outcome \in NetOutcomes(handlers[s].request.url, handlers[s].id) :
            FetchSettles(s, outcome)
    \/ \E s \in Slots : OpenSettles(s)
    \/ \E s \in Slots : LookupSettles(s)
    \/ \E s \in Slots : FallbackStep(s)
    \/ \E s \in Slots : PutCommits(s)
    \/ GovTick
    \/ \E other \in OtherUsage : GovEstimate(other)
    \/ GovKeys
    \/ GovEvict
    \/ GovEvicted
    \/ ClearMessage
    \/ \E s \in Slots : ClearDeletes(s)
    \/ \E s \in Slots : ClearSettles(s)
    \/ StatusMessage
    \/ \E s \in Slots : StatusListed(s)
    \/ \E s \in Slots : StatusOpened(s)
    \/ \E s \in Slots : StatusCounted(s)
    \/ \E siteData \in SitePayloads : BundleMessage(siteData)
    \/ \E s \in Slots : BundleOpened(s)
    \/ \E s \in Slots :
         \E i \in 1..Len(bundle[s].items) :
            \E outcome \in NetOutcomes(bundle[s].items[i].url, bundle[s].id) :
               BundleFetchSettles(s, i, outcome)
    \/ \E s \in Slots :
         \E i \in 1..Len(bundle[s].items) : BundlePutCommits(s, i)

Spec == Init /\ [][Next]_vars

---------------------------------------------------------------------------
(* The installation and the activation with the control messages that      *)
(* delete and create caches.  SpecStartup is the worker from the first run  *)
(* of its script, with CLEAR_CACHE and GET_CACHE_STATUS posted to it while  *)
(* it installs, waits and activates.                                        *)

NextStartup ==
    \/ InstallEvent
    \/ InstallOpened
    \/ \E answers \in InstallAnswers : InstallSettles(answers)
    \/ ActivateEvent
    \/ ActivateDeletes
    \/ ActivateSettles
    \/ ClearMessage
    \/ \E s \in Slots : ClearDeletes(s)
    \/ \E s \in Slots : ClearSettles(s)
    \/ StatusMessage
    \/ \E s \in Slots : StatusListed(s)
    \/ \E s \in Slots : StatusOpened(s)
    \/ \E s \in Slots : StatusCounted(s)

SpecStartup == Init /\ [][NextStartup]_vars

---------------------------------------------------------------------------
(* A restarted worker.  The browser stops an idle service worker and runs  *)
(* its script again for the next event: the handlers are gone, the cache   *)
(* storage is as the earlier runs left it.  SpecGov starts from an active  *)
(* worker whose earlier runs installed the static tier, stored one         *)
(* heritage image and answered n API requests, oldest first.               *)

\* Entries the dynamic tier holds at most when the worker is restarted.
MaxStored == 10

StoredUrl(i) == Local("/api/heritage/sites/" \o ToString(i))

Stored(url) == [key |-> url, resp |-> Response(200, url, 0, "origin")]

RestartedStorage(n) ==
    << [name |-> STATIC_CACHE, id |-> 1,
        entries |-> [i \in 1..Len(STATIC_ASSETS) |-> Stored(AssetUrls[i])]],
       [name |-> HERITAGE_CACHE, id |-> 2, entries |-> <<Stored(UrlModel)>>],
       [name |-> DYNAMIC_CACHE, id |-> 3,
        entries |-> [i \in 1..n |-> Stored(StoredUrl(i))]] >>

InitGov ==
    /\ lifecycle = "activated"
    /\ startup = [IdleStartup EXCEPT !.pc = "done"]
    /\ \E n \in 0..MaxStored : caches = RestartedStorage(n)
    /\ detached = <<>>
    /\ nextCacheId = 4
    /\ handlers = [s \in Slots |-> IdleHandler]
    /\ unhandled = NoRequest
    /\ gov = IdleGov
    /\ bundle = [s \in Slots |-> IdleBundle]
    /\ clearing = [s \in Slots |-> IdleClear]
    /\ cacheStatus = [s \in Slots |-> IdleStatus]
    /\ nEvents = 0
    /\ syncs = [s \in Slots |-> IdleSync]
    /\ notification = NoNotification
    /\ windows = <<>>

GovRequests == {
    Request("GET", StoredUrl(1), "cors"),
    Request("GET", UrlApi, "cors"),
    Request("GET", UrlImage, "no-cors") }

NextGov ==
    \/ \E request \in GovRequests : FetchEvent(request)
    \/ \E s \in Slots : MatchSettles(s)
    \/ \E s \in Slots :
         \E outcome \in NetOutcomes(handlers[s].request.url, handlers[s].id) :
            FetchSettles(s, outcome)
    \/ \E s \in Slots : OpenSettles(s)
    \/ \E s \in Slots : LookupSettles(s)
    \/ \E s \in Slots : PutCommits(s)
    \/ GovTick
    \/ \E other \in OtherUsage : GovEstimate(other)
    \/ GovKeys
    \/ GovEvict
    \/ GovEvicted

SpecGov == InitGov /\ [][NextGov]_vars

---------------------------------------------------------------------------
(* The governor over a failing storage.  SpecGovFault is SpecGov where     *)
(* navigator.storage.estimate() and the deletes of an eviction may reject. *)

\* navigator.storage.estimate() rejects.
GovEstimateFails ==
    /\ gov.pc = "estimate"
    /\ gov' = manageCacheSizeEstimateFailed(gov, StorageError)
    /\ UNCHANGED <<lifecycle, startup, caches, detached, nextCacheId, handlers,
                   unhandled, bundle, clearing, cacheStatus, nEvents>>
    /\ UNCHANGED syncVars
    /\ UNCHANGED pushVars

\* dynamicCache.keys() settles: the deletes are issued, and the one of
\* `failed` will reject.
GovEvictFails(failed) ==
    /\ gov.pc = "keys"
    /\ \E i \in 1..Len(Oldest(gov.requests)) : Oldest(gov.requests)[i] = failed
    /\ gov' = manageCacheSizeEvictFailed(gov, failed, StorageError)
    /\ caches' = DeleteAll(caches, gov.cache, gov'.deleted)
    /\ detached' = DeleteAll(detached, gov.cache, gov'.deleted)
    /\ UNCHANGED <<lifecycle, startup, nextCacheId, handlers, unhandled,
                   bundle, clearing, cacheStatus, nEvents>>
    /\ UNCHANGED syncVars
    /\ UNCHANGED pushVars

NextGovFault ==
    \/ NextGov
    \/ GovEstimateFails
    \/ \E i \in 1..Len(gov.requests) : GovEvictFails(gov.requests[i])

SpecGovFault == InitGov /\ [][NextGovFault]_vars

---------------------------------------------------------------------------
(* Background sync as a state machine.  SpecSync is an active worker and   *)
(* the sync events of the browser.  getStoredData resolves with no item,   *)
(* so that a pass ends when it settles: the delivery steps are the code of *)
(* the loops, which no pass of the source as shipped enters.               *)

workerVars == <<lifecycle, startup, caches, detached, nextCacheId, handlers,
                unhandled, gov, bundle, clearing, cacheStatus, notification, windows>>

\* The tags the browser fires: the three of the listener, and tags it does
\* not test for.
EventTags == SyncTags \cup {"periodic-content-sync", "Analytics-Sync", ""}

\* The sync listener: under `if (event.tag === ...)`, the flush of the tag
\* to `await getStoredData(...)`.  Any other tag is logged and starts
\* nothing.
SyncEvent(tag) ==
    /\ lifecycle = "activated"
    /\ nEvents < MaxEvents
    /\ syncs' = IF tag \in SyncTags
                THEN [syncs EXCEPT ![nEvents + 1] = syncRead(nEvents + 1, tag)]
                ELSE syncs
    /\ nEvents' = nEvents + 1
    /\ UNCHANGED workerVars

\* getStoredData settles: the first delivery is issued, or the pass ends.
SyncRead(s) ==
    /\ syncs[s].pc = "read"
    /\ syncs' = [syncs EXCEPT ![s] =
                    IF @.tag = ANALYTICS_SYNC THEN syncAnalytics(@)
                    ELSE syncItems(@)]
    /\ UNCHANGED <<workerVars, nEvents>>

\* The delivery request of a flush settles.
DeliverySettles(s, outcome) ==
    /\ syncs[s].pc = "fetch"
    /\ syncs' = [syncs EXCEPT ![s] =
                    IF @.tag = ANALYTICS_SYNC
                    THEN syncAnalyticsSettled(@, outcome)
                    ELSE syncItemSettled(@, outcome)]
    /\ UNCHANGED <<workerVars, nEvents>>

\* removeStoredData or clearStoredData settles.
RemoveSettles(s) ==
    /\ syncs[s].pc \in {"remove", "clear"}
    /\ syncs' = [syncs EXCEPT ![s] =
                    IF @.pc = "clear" THEN [@ EXCEPT !.pc = "done"]
                    ELSE syncItemRemoved(@)]
    /\ UNCHANGED <<workerVars, nEvents>>

InitSync ==
    /\ lifecycle = "activated"
    /\ startup = [IdleStartup EXCEPT !.pc = "done"]
    /\ caches = RestartedStorage(0)
    /\ detached = <<>>
    /\ nextCacheId = 4
    /\ handlers = [s \in Slots |-> IdleHandler]
    /\ unhandled = NoRequest
    /\ gov = IdleGov
    /\ bundle = [s \in Slots |-> IdleBundle]
    /\ clearing = [s \in Slots |-> IdleClear]
    /\ cacheStatus = [s \in Slots |-> IdleStatus]
    /\ nEvents = 0
    /\ syncs = [s \in Slots |-> IdleSync]
    /\ notification = NoNotification
    /\ windows = <<>>

NextSync ==
    \/ \E tag \in EventTags : SyncEvent(tag)
    \/ \E s \in Slots : SyncRead(s)
    \/ \E s \in Slots :
         /\ syncs[s].pc = "fetch"
         /\ \E outcome \in DeliveryOutcomes(EndpointOf(syncs[s].tag),
                                              syncs[s].id) :
               DeliverySettles(s, outcome)
    \/ \E s \in Slots : RemoveSettles(s)

SpecSync == InitSync /\ [][NextSync]_vars

---------------------------------------------------------------------------
(* Classification.  SpecClass is an active worker that receives one GET    *)
(* request, drawn from every pathname of at most MaxPathLen segments over  *)
(* the words the three predicates look for, and answers it.                *)

\* Segments of the pathnames SpecClass draws.
MaxPathLen == 3

Segments == {"api", "scripts", "assets", "images", "tours", "index.html", ""}

\* The pathname with these segments: "/" before each of them.
RECURSIVE Join(_)
Join(segments) ==
    IF segments = <<>> THEN ""
    ELSE "/" \o Head(segments) \o Join(Tail(segments))

ClassPaths ==
    {Join(segments) :
        segments \in UNION {[1..n -> Segments] : n \in 1..MaxPathLen}}

ClassRequests ==
    {Request("GET", Url("https:", host, pathname, ""), mode) :
        host \in {Origin, "fonts.gstatic.com"},
        pathname \in ClassPaths,
        mode \in {"navigate", "cors"}}

\* The fetch listener for the one request of the run.
ClassifyEvent(request) ==
    /\ nEvents = 0
    /\ FetchEvent(request)

NextClass ==
    \/ nEvents = 0 /\ \E request \in ClassRequests : ClassifyEvent(request)
    \/ \E s \in Slots : MatchSettles(s)
    \/ \E s \in Slots :
         \E outcome \in NetOutcomes(handlers[s].request.url, handlers[s].id) :
            FetchSettles(s, outcome)
    \/ \E s \in Slots : OpenSettles(s)
    \/ \E s \in Slots : LookupSettles(s)
    \/ \E s \in Slots : FallbackStep(s)
    \/ \E s \in Slots : PutCommits(s)

SpecClass == InitSync /\ [][NextClass]_vars

---------------------------------------------------------------------------
(* Site download.  SpecBundle is a worker restarted after installation     *)
(* (the static tier is all the storage holds), the CACHE_HERITAGE_SITE     *)
(* message of a page and requests for the URLs of the site, as a           *)
(* subresource and as a page load.                                         *)

InitBundle ==
    /\ lifecycle = "activated"
    /\ startup = [IdleStartup EXCEPT !.pc = "done"]
    /\ caches = SubSeq(RestartedStorage(0), 1, 1)
    /\ detached = <<>>
    /\ nextCacheId = 4
    /\ handlers = [s \in Slots |-> IdleHandler]
    /\ unhandled = NoRequest
    /\ gov = IdleGov
    /\ bundle = [s \in Slots |-> IdleBundle]
    /\ clearing = [s \in Slots |-> IdleClear]
    /\ cacheStatus = [s \in Slots |-> IdleStatus]
    /\ nEvents = 0
    /\ syncs = [s \in Slots |-> IdleSync]
    /\ notification = NoNotification
    /\ windows = <<>>

BundleRequests == {
    Request("GET", UrlImage, "no-cors"),
    Request("GET", UrlImage, "navigate"),
    Request("GET", UrlModel, "cors") }

NextBundle ==
    \/ \E siteData \in SitePayloads : BundleMessage(siteData)
    \/ \E s \in Slots : BundleOpened(s)
    \/ \E s \in Slots :
         \E i \in 1..Len(bundle[s].items) :
            \E outcome \in NetOutcomes(bundle[s].items[i].url, bundle[s].id) :
               BundleFetchSettles(s, i, outcome)
    \/ \E s \in Slots :
         \E i \in 1..Len(bundle[s].items) : BundlePutCommits(s, i)
    \/ \E request \in BundleRequests : FetchEvent(request)
    \/ \E s \in Slots : MatchSettles(s)
    \/ \E s \in Slots :
         \E outcome \in NetOutcomes(handlers[s].request.url, handlers[s].id) :
            FetchSettles(s, outcome)
    \/ \E s \in Slots : OpenSettles(s)
    \/ \E s \in Slots : LookupSettles(s)
    \/ \E s \in Slots : PutCommits(s)

SpecBundle == InitBundle /\ [][NextBundle]_vars

---------------------------------------------------------------------------
(* The active worker.  SpecActive is the worker after its activation, the   *)
(* static tier installed: fetch events, control messages and timer ticks,   *)
(* all of them overlapping.                                                 *)

NextActive ==
    \/ \E request \in Requests : FetchEvent(request)
    \/ \E s \in Slots : MatchSettles(s)
    \/ \E s \in Slots :
         \E outcome \in NetOutcomes(handlers[s].request.url, handlers[s].id) :
            FetchSettles(s, outcome)
    \/ \E s \in Slots : OpenSettles(s)
    \/ \E s \in Slots : LookupSettles(s)
    \/ \E s \in Slots : FallbackStep(s)
    \/ \E s \in Slots : PutCommits(s)
    \/ GovTick
    \/ \E other \in OtherUsage : GovEstimate(other)
    \/ GovKeys
    \/ GovEvict
    \/ GovEvicted
    \/ ClearMessage
    \/ \E s \in Slots : ClearDeletes(s)
    \/ \E s \in Slots : ClearSettles(s)
    \/ StatusMessage
    \/ \E s \in Slots : StatusListed(s)
    \/ \E s \in Slots : StatusOpened(s)
    \/ \E s \in Slots : StatusCounted(s)
    \/ \E siteData \in SitePayloads : BundleMessage(siteData)
    \/ \E s \in Slots : BundleOpened(s)
    \/ \E s \in Slots :
         \E i \in 1..Len(bundle[s].items) :
            \E outcome \in NetOutcomes(bundle[s].items[i].url, bundle[s].id) :
               BundleFetchSettles(s, i, outcome)
    \/ \E s \in Slots :
         \E i \in 1..Len(bundle[s].items) : BundlePutCommits(s, i)

SpecActive == InitBundle /\ [][NextActive]_vars

---------------------------------------------------------------------------
(* Site download from the content network.  SpecTiers is SpecBundle with   *)
(* the site record of the content API, whose model is served by            *)
(* cdn.bharatvrsh.com, and requests of pages for the same resources.       *)

UrlCdnModel ==
    Url("https:", "cdn.bharatvrsh.com",
        "/models/bateshwar/main_temple.glb", "")

CdnPayloads == {
    [id |-> "bateshwar", imageUrl |-> UrlImage, thumbnailUrl |-> NoUrl,
     modelUrl |-> UrlCdnModel, audioUrls |-> <<>>] }

TierRequests == {
    Request("GET", UrlCdnModel, "cors"),
    Request("GET", UrlImage, "no-cors"),
    Request("GET", UrlVideo, "no-cors") }

NextTiers ==
    \/ \E siteData \in CdnPayloads : BundleMessage(siteData)
    \/ \E s \in Slots : BundleOpened(s)
    \/ \E s \in Slots :
         \E i \in 1..Len(bundle[s].items) :
            \E outcome \in NetOutcomes(bundle[s].items[i].url, bundle[s].id) :
               BundleFetchSettles(s, i, outcome)
    \/ \E s \in Slots :
         \E i \in 1..Len(bundle[s].items) : BundlePutCommits(s, i)
    \/ \E request \in TierRequests : FetchEvent(request)
    \/ \E s \in Slots : MatchSettles(s)
    \/ \E s \in Slots :
         \E outcome \in NetOutcomes(handlers[s].request.url, handlers[s].id) :
            FetchSettles(s, outcome)
    \/ \E s \in Slots : OpenSettles(s)
    \/ \E s \in Slots : LookupSettles(s)
    \/ \E s \in Slots : PutCommits(s)

SpecTiers == InitBundle /\ [][NextTiers]_vars

---------------------------------------------------------------------------
(* Network-first handling.  SpecFetch is a restarted worker and requests   *)
(* for resources the worker stores in the dynamic tier: a video and a page *)
(* no rule matches, and the site list of the API.  The events overlap      *)
(* freely, also on the same resource.                                      *)

FetchRequests == {
    Request("GET", UrlVideo, "no-cors"),
    Request("GET", UrlOffline, "cors"),
    Request("GET", UrlApi, "cors") }

NextFetch ==
    \/ \E request \in FetchRequests : FetchEvent(request)
    \/ \E s \in Slots :
         \E outcome \in NetOutcomes(handlers[s].request.url, handlers[s].id) :
            FetchSettles(s, outcome)
    \/ \E s \in Slots : OpenSettles(s)
    \/ \E s \in Slots : LookupSettles(s)
    \/ \E s \in Slots : PutCommits(s)

SpecFetch == InitSync /\ [][NextFetch]_vars

---------------------------------------------------------------------------
(* Writes of one key.  SpecWrites is a restarted worker as the timer of    *)
(* the governor fires: the run of the governor goes on while fetch events  *)
(* for the same API resource, or the same video, are handled side by       *)
(* side.  The dynamic tier holds five API responses of the earlier runs,   *)
(* the oldest of them the resource requested, so that a governor run over  *)
(* the ceiling evicts it.  The origin answers with the resource as the     *)
(* tier holds it (version 0) or with a newer one.                          *)

InitWrites ==
    /\ lifecycle = "activated"
    /\ startup = [IdleStartup EXCEPT !.pc = "done"]
    /\ caches = RestartedStorage(5)
    /\ detached = <<>>
    /\ nextCacheId = 4
    /\ handlers = [s \in Slots |-> IdleHandler]
    /\ unhandled = NoRequest
    /\ gov = [IdleGov EXCEPT !.pc = "estimate"]
    /\ bundle = [s \in Slots |-> IdleBundle]
    /\ clearing = [s \in Slots |-> IdleClear]
    /\ cacheStatus = [s \in Slots |-> IdleStatus]
    /\ nEvents = 0
    /\ syncs = [s \in Slots |-> IdleSync]
    /\ notification = NoNotification
    /\ windows = <<>>

WriteRequests == {
    Request("GET", StoredUrl(1), "cors"),
    Request("GET", UrlVideo, "no-cors") }

NextWrites ==
    \/ \E request \in WriteRequests : FetchEvent(request)
    \/ \E s \in Slots :
         \E ver \in {0, handlers[s].id} :
            \E outcome \in NetOutcomes(handlers[s].request.url, ver) :
               FetchSettles(s, outcome)
    \/ \E s \in Slots : OpenSettles(s)
    \/ \E s \in Slots : LookupSettles(s)
    \/ \E s \in Slots : PutCommits(s)
    \/ \E other \in OtherUsage : GovEstimate(other)
    \/ GovKeys
    \/ GovEvict
    \/ GovEvicted

SpecWrites == InitWrites /\ [][NextWrites]_vars

---------------------------------------------------------------------------
(* Fetch events over a failing storage.  SpecStorageFault handles one       *)
(* uncached request of each writing strategy: after a fetch has succeeded,  *)
(* caches.open or cache.put may reject.                                     *)

StorageRequests == {
    Request("GET", UrlCss, "no-cors"),
    Request("GET", UrlApi, "cors"),
    Request("GET", UrlImage, "no-cors"),
    Request("GET", UrlVideo, "no-cors") }

\* fetch(request) settles with a response the strategy stores, and the
\* caches.open it issues will reject.
FetchSettlesOpenFails(s, outcome) ==
    /\ handlers[s].pc = "fetch"
    /\ Fetched([handlers[s] EXCEPT !.networkResponse = outcome],
               caches, nextCacheId, outcome).h.pc = "open"
    /\ handlers' = [handlers EXCEPT ![s] =
           OpenFailed([@ EXCEPT !.networkResponse = outcome], StorageError)]
    /\ UNCHANGED syncVars
    /\ UNCHANGED pushVars
    /\ UNCHANGED <<lifecycle, startup, caches, detached, nextCacheId,
                   unhandled, gov, bundle, clearing, cacheStatus, nEvents>>

\* cache.put(request, networkResponse.clone()) rejects.
PutFails(s) ==
    /\ handlers[s].pc = "put"
    /\ handlers' = [handlers EXCEPT ![s] = PutFailed(handlers[s])]
    /\ UNCHANGED syncVars
    /\ UNCHANGED pushVars
    /\ UNCHANGED <<lifecycle, startup, caches, detached, nextCacheId,
                   unhandled, gov, bundle, clearing, cacheStatus, nEvents>>

NextStorageFault ==
    \/ \E request \in StorageRequests : FetchEvent(request)
    \/ \E s \in Slots : MatchSettles(s)
    \/ \E s \in Slots :
         \E outcome \in NetOutcomes(handlers[s].request.url, handlers[s].id) :
            FetchSettles(s, outcome)
    \/ \E s \in Slots :
         \E outcome \in NetOutcomes(handlers[s].request.url, handlers[s].id) :
            FetchSettlesOpenFails(s, outcome)
    \/ \E s \in Slots : OpenSettles(s)
    \/ \E s \in Slots : LookupSettles(s)
    \/ \E s \in Slots : PutCommits(s)
    \/ \E s \in Slots : PutFails(s)

SpecStorageFault == InitSync /\ [][NextStorageFault]_vars

---------------------------------------------------------------------------
(* Push notifications as a state machine: SpecPush is an active worker,    *)
(* the push messages of the server and the clicks of the user.             *)

fetchVars == <<lifecycle, startup, caches, detached, nextCacheId, handlers,
               unhandled, gov, bundle, clearing, cacheStatus>>

\* The push listener.
PushEvent(data) ==
    /\ lifecycle = "activated"
    /\ nEvents < MaxPushEvents
    /\ notification' = [shown |-> TRUE, body |-> Options(data).body,
                        url |-> Options(data).url, event |-> data]
    /\ nEvents' = nEvents + 1
    /\ UNCHANGED <<fetchVars, syncVars, windows>>

\* The notificationclick listener.
NotificationClick(action) ==
    /\ notification.shown
    /\ nEvents < MaxPushEvents
    /\ notification' = [notification EXCEPT !.shown = FALSE]
    /\ windows' = IF Opens(action)
                  THEN Append(windows, Target(notification.url))
                  ELSE windows
    /\ nEvents' = nEvents + 1
    /\ UNCHANGED <<fetchVars, syncVars>>

NextPush ==
    \/ \E data \in PushData : PushEvent(data)
    \/ \E action \in ClickActions : NotificationClick(action)

SpecPush == InitSync /\ [][NextPush]_vars

---------------------------------------------------------------------------
(* Properties *)

\* Event e is a fetch event dispatched by this step.
Dispatched(e) == handlers[e].pc = "idle" /\ handlers'[e].pc # "idle"

\* The fetch of handler e settles in this step.
Settled(e) == handlers[e].pc = "fetch" /\ handlers'[e].pc # "fetch"

Cached(cs, url) == IsResponse(CachesMatch(cs, url))

\* The lookup that opens the strategy of handler e settles in this step.
MatchSettled(e) == handlers[e].pc = "match" /\ handlers'[e].pc # "match"

\* C1: a GET http(s) request classified static-asset for which a cached
\* copy exists when its handling starts looks that copy up, and once the
\* lookup has settled its handler is answered with the copy and ends there
\* without a network fetch.
C1_StaticHitNoNetwork ==
    [][\A e \in Slots :
          /\ (/\ Dispatched(e)
              /\ Strategy(handlers'[e].request) = "static"
              /\ Cached(caches, handlers'[e].request.url))
             => /\ handlers'[e].pc = "match"
                /\ handlers'[e].found =
                      CachesMatch(caches, handlers'[e].request.url)
          /\ (/\ MatchSettled(e)
              /\ handlers[e].strategy = "static"
              /\ IsResponse(handlers[e].found))
             => /\ handlers'[e].result = handlers[e].found
                /\ handlers'[e].pc = "done"
                /\ \A i \in 1..Len(handlers'[e].log) :
                      handlers'[e].log[i] # "fetch"]_vars

C1_Witness ==
    \E e \in Slots :
        /\ handlers[e].strategy = "static"
        /\ handlers[e].pc = "done"
        /\ handlers[e].log = <<"match">>
        /\ IsResponse(handlers[e].result)
        /\ handlers[e].result.url = handlers[e].request.url

\* C2: a GET request classified api calls the network before any cache
\* lookup, and when the network answers with a success response the caller
\* receives that response, the one fetched for this event, whatever the
\* caches hold.
C2_ApiNetworkFirst ==
    \A e \in Slots :
        (handlers[e].pc # "idle" /\ Strategy(handlers[e].request) = "api")
        => /\ handlers[e].log # <<>>
           /\ Head(handlers[e].log) = "fetch"
           /\ (IsResponse(handlers[e].networkResponse) /\ Ok(handlers[e].networkResponse))
              => \/ handlers[e].pc = "open" /\ handlers[e].result = Pending
                 \/ /\ handlers[e].pc \in {"put", "done"}
                    /\ handlers[e].result = handlers[e].networkResponse
                    /\ handlers[e].result.ver = e

\* A live response is delivered while an older copy is still in the cache.
C2_Witness ==
    \E e \in Slots :
        /\ handlers[e].strategy = "api"
        /\ handlers[e].pc = "put"
        /\ Ok(handlers[e].result)
        /\ handlers[e].result.ver = e
        /\ Cached(caches, handlers[e].request.url)
        /\ CachesMatch(caches, handlers[e].request.url).ver < e

\* C3: a fetch event for a non-GET request starts no handler and leaves the
\* cache storage as it is: the event is left to the browser.
C3_NonGetUntouched ==
    [][\A r \in Requests :
          (r.method # "GET" /\ FetchEvent(r))
          => /\ caches' = caches
             /\ handlers' = handlers
             /\ unhandled' = r]_vars

C3_Witness ==
    /\ unhandled.method = "POST"
    /\ \A e \in Slots : handlers[e].request.method # "POST"
    /\ Len(caches) > 0

\* C4: every entry of every cache tier holds a response of the network whose
\* status is a success status.
C4_OnlySuccessStored ==
    \A i \in 1..Len(caches) :
        \A j \in 1..Len(caches[i].entries) :
            /\ Ok(caches[i].entries[j].resp)
            /\ caches[i].entries[j].resp.body = "origin"

\* A fetch strategy and the bundle request have both seen an error status,
\* and stored nothing for it.
C4_Witness ==
    /\ \E e \in Slots :
          /\ handlers[e].pc = "done"
          /\ handlers[e].strategy \in {"static", "api", "heritage", "default"}
          /\ IsResponse(handlers[e].networkResponse)
          /\ ~Ok(handlers[e].networkResponse)
          /\ ~Cached(caches, handlers[e].request.url)
    /\ \E b \in Slots :
          /\ bundle[b].pc = "done"
          /\ \E i \in 1..Len(bundle[b].items) :
                ~Cached(caches, bundle[b].items[i].url)
          /\ \E i \in 1..Len(bundle[b].items) :
                Cached(caches, bundle[b].items[i].url)

\* C5: a failed navigation that finds neither /index.html nor /offline.html
\* in the caches is answered with the synthesized offline document.
C5_NavigationOfflineDocument ==
    [][\A e \in Slots :
          (/\ handlers[e].strategy = "navigation"
           /\ handlers[e].networkResponse = NetworkError
           /\ handlers[e].pc = "fallback"
           /\ handlers'[e].pc = "done"
           /\ ~IsResponse(handlers[e].found))
          => handlers'[e].result = OfflineHtmlResponse]_vars

\* The lookup of the catch block of handler e settles in this step.
LookupSettled(e) == handlers[e].pc = "lookup" /\ handlers'[e].pc # "lookup"

\* C6: when the fetch of a GET request classified api fails, the handler
\* looks the request up in the caches, and once the lookup has settled it
\* resolves: with the cached response when there is one, with the
\* synthesized 503 'Offline' response otherwise.
C6_ApiFailureFallback ==
    [][\A e \in Slots :
          /\ (/\ Settled(e)
              /\ Strategy(handlers[e].request) = "api"
              /\ handlers'[e].networkResponse = NetworkError)
             => /\ handlers'[e].pc = "lookup"
                /\ handlers'[e].found =
                      CachesMatch(caches, handlers[e].request.url)
          /\ (/\ LookupSettled(e)
              /\ Strategy(handlers[e].request) = "api")
             => /\ handlers'[e].pc = "done"
                /\ handlers'[e].result =
                      IF IsResponse(handlers[e].found)
                      THEN handlers[e].found
                      ELSE Response(503, NoUrl, 0,
                               "{error:Offline,message:This request is not available offline}")]_vars

\* The network fails and the response an earlier event stored is returned.
C6_Witness ==
    \E e \in Slots :
        /\ handlers[e].strategy = "api"
        /\ handlers[e].pc = "done"
        /\ handlers[e].networkResponse = NetworkError
        /\ IsResponse(handlers[e].result)
        /\ handlers[e].result.status = 200
        /\ handlers[e].result.ver < e
        /\ handlers[e].result.ver > 0

OtherCaches(cs) == SelectSeq(cs, LAMBDA c : c.name # DYNAMIC_CACHE)

\* C7: no step of the size governor changes a cache other than the dynamic
\* tier, and none adds an entry to the dynamic tier.
C7_GovernorTouchesDynamicOnly ==
    [][gov' # gov
       => /\ OtherCaches(caches') = OtherCaches(caches)
          /\ KeySet(Tier(caches', DYNAMIC_CACHE)) \subseteq
                KeySet(Tier(caches, DYNAMIC_CACHE))]_vars

\* The governor has evicted while a fetch handler was writing, with entries
\* in the static and heritage tiers.
C7_Witness ==
    /\ gov.pc = "done"
    /\ gov.deleted # <<>>
    /\ Tier(caches, STATIC_CACHE) # <<>>
    /\ Tier(caches, HERITAGE_CACHE) # <<>>
    /\ \E e \in Slots : handlers[e].pc = "put"

\* C8: the evicting step of the governor, with n keys enumerated from the
\* dynamic tier, deletes the first floor(n / 5) of them and no other entry;
\* when the tier still is as enumerated it is left with its last
\* n - floor(n / 5) entries, and with all of them when n < 5.
C8_EvictsOldestFifth ==
    [][(gov.pc = "keys" /\ gov'.pc = "evict")
       => LET n == Len(gov.requests)
              k == n \div 5
              first == {gov.requests[i] : i \in 1..k}
              dyn == Tier(caches, DYNAMIC_CACHE)
              left == Tier(caches', DYNAMIC_CACHE)
          IN  /\ gov'.deleted = SubSeq(gov.requests, 1, k)
              /\ left = SelectSeq(dyn, LAMBDA en : en.key \notin first)
              /\ Keys(dyn) = gov.requests
                 => /\ left = SubSeq(dyn, k + 1, n)
                    /\ Len(left) = n - k
              /\ n < 5 => left = dyn]_vars

\* Ten entries were enumerated and the two oldest are gone.
C8_Witness ==
    /\ gov.pc = "done"
    /\ Len(gov.requests) = 10
    /\ gov.deleted = <<StoredUrl(1), StoredUrl(2)>>
    /\ Len(Tier(caches, DYNAMIC_CACHE)) = 8

Quiet ==
    /\ \A e \in Slots : handlers[e].pc \in {"idle", "done"}
    /\ \A s \in Slots :
          /\ bundle[s].pc \in {"idle", "done"}
          /\ clearing[s].pc \in {"idle", "done"}
          /\ cacheStatus[s].pc \in {"idle", "done"}

\* C9: once a governor run that found the usage above the ceiling has ended,
\* with nothing else in progress, the dynamic tier is within the ceiling.
C9_CeilingRestored ==
    (gov.pc = "done" /\ ExceedsCeiling(gov.usage) /\ Quiet)
    => EntriesSize(Tier(caches, DYNAMIC_CACHE)) <= MAX_CACHE_SIZE

\* C10: a governor run that reads a usage not above the ceiling ends at once
\* and leaves the whole cache storage as it is.
C10_BelowCeilingNoEviction ==
    [][(gov.pc = "estimate" /\ gov'.pc # "estimate" /\ gov'.usage <= MAX_CACHE_SIZE)
       => /\ caches' = caches
          /\ gov'.pc = "done"
          /\ gov'.deleted = <<>>]_vars

\* A run below the ceiling has ended with a full dynamic tier untouched.
C10_Witness ==
    /\ gov.pc = "done"
    /\ gov.usage > 0
    /\ gov.usage < MAX_CACHE_SIZE
    /\ Len(Tier(caches, DYNAMIC_CACHE)) >= MaxStored

---------------------------------------------------------------------------
(* Storing, lifecycle and control messages *)

\* The Cache object with this identity is in the storage.
Exists(cs, id) == \E i \in 1..Len(cs) : cs[i].id = id

\* The caches.open of handler e settles in this step.
OpenSettled(e) == handlers[e].pc = "open" /\ handlers'[e].pc # "open"

\* C14: a static-asset GET that found no cached copy and whose fetch is
\* answered with a success status opens the static tier, returns the fetched
\* response and stores it under the request's URL in the static tier (the
\* Cache object the handler opened, unless CLEAR_CACHE deleted it before the
\* write), and in no other tier.
C14_StaticMissFetchedAndStored ==
    [][\A e \in Slots :
          LET h == handlers[e]
              after == handlers'[e]
          IN  /\ (/\ h.strategy = "static"
                  /\ h.log = <<"match", "fetch">>
                  /\ Settled(e)
                  /\ IsResponse(after.networkResponse)
                  /\ after.networkResponse.status \in 200..299)
                 => /\ after.pc = "open"
                    /\ after.log = <<"match", "fetch", "open">>
                    /\ HasCache(caches', STATIC_CACHE)
                    /\ caches'[CacheIndex(caches', STATIC_CACHE)].id = after.cache
              /\ (h.strategy = "static" /\ OpenSettled(e))
                 => /\ after.result = h.networkResponse
                    /\ after.pc = "put"
                    /\ after.log = <<"match", "fetch", "open", "put">>
              /\ (h.strategy = "static" /\ h.pc = "put" /\ after.pc = "done")
                 => \A i \in 1..Len(caches') :
                       IF caches'[i].id = h.cache
                       THEN /\ caches'[i].name = STATIC_CACHE
                            /\ CacheMatch(caches'[i].entries, h.request.url)
                                  = h.result
                       ELSE caches'[i] = caches[i]]_vars

\* A fetched static asset is in the static tier and in no other.
C14_Witness ==
    \E e \in Slots :
        /\ handlers[e].strategy = "static"
        /\ handlers[e].pc = "done"
        /\ handlers[e].log = <<"match", "fetch", "open", "put">>
        /\ handlers[e].result.status = 200
        /\ CacheMatch(Tier(caches, STATIC_CACHE), handlers[e].request.url)
              = handlers[e].result
        /\ \A i \in 1..Len(caches) :
              caches[i].name # STATIC_CACHE
                 => handlers[e].request.url \notin KeySet(caches[i].entries)

\* The five rules of the dispatch, in the order they are tried.
RuleOrder == <<"static", "api", "heritage", "navigation", "default">>

Matches(rule, request) ==
    CASE rule = "static" -> isStaticAsset(request.url)
      [] rule = "api" -> isAPIRequest(request.url)
      [] rule = "heritage" -> isHeritageContent(request.url)
      [] rule = "navigation" -> request.mode = "navigate"
      [] rule = "default" -> TRUE

\* The first call of each strategy.
FirstCall(strategy) ==
    IF strategy \in {"static", "heritage"} THEN "match" ELSE "fetch"

\* C15: a GET http(s) request is handled by one strategy, that of the first
\* rule it matches in the order static, API, heritage, navigation, default:
\* no earlier rule matches the request, and the strategy that runs is the
\* one the handler keeps to its end.
C15_FirstMatchingRule ==
    [][\A e \in Slots :
          /\ Dispatched(e)
                => \E i \in 1..Len(RuleOrder) :
                      /\ handlers'[e].strategy = RuleOrder[i]
                      /\ Matches(RuleOrder[i], handlers'[e].request)
                      /\ \A j \in 1..(i - 1) :
                            ~Matches(RuleOrder[j], handlers'[e].request)
                      /\ handlers'[e].log[1] = FirstCall(RuleOrder[i])
          /\ handlers[e].pc # "idle"
                => handlers'[e].strategy = handlers[e].strategy]_vars

\* A page navigation to a path under /api/ that contains /scripts/ and ends
\* with /index.html matches four rules and ran the static-asset strategy.
C15_Witness ==
    \E e \in Slots :
        /\ handlers[e].request.url.pathname = "/api/scripts/index.html"
        /\ handlers[e].request.mode = "navigate"
        /\ handlers[e].strategy = "static"
        /\ handlers[e].pc = "done"

\* The names of the three tiers of this build.
CurrentNames ==
    {"bharatvrsh-static-v1.2.0", "bharatvrsh-dynamic-v1.2.0",
     "bharatvrsh-heritage-v1.2.0"}

\* C16: the steps of the activation leave the three tiers of this build as
\* they were, and its deleting step removes every cache whose name is not
\* one of the three tier names; once the activation has completed every
\* cache of the storage carries one of the three names.
C16_ActivationKeepsCurrentTiers ==
    [][/\ (lifecycle \in {"installed", "activating"} /\ startup' # startup)
            => \A i \in 1..Len(caches) :
                  caches[i].name \in CurrentNames
                     => \E j \in 1..Len(caches') : caches'[j] = caches[i]
       /\ (startup.pc = "keys" /\ startup'.pc = "delete")
            => \A i \in 1..Len(caches) :
                  caches[i].name \notin CurrentNames
                     => ~HasCache(caches', caches[i].name)
       /\ lifecycle' = "activated"
            => \A j \in 1..Len(caches') : caches'[j].name \in CurrentNames]_vars

\* The name is one of the list.
Listed(names, name) == \E k \in 1..Len(names) : names[k] = name

\* C17: an installation succeeds only with every URL of the static-asset
\* list stored in the static tier: in the Cache object the installation
\* opened, which is the static tier of the storage unless a CLEAR_CACHE
\* posted to the installing worker has deleted it; when the fetch of any
\* asset is rejected or answered with a non-success status the installation
\* fails (no step settles the installation as installed on such answers,
\* or as failed on eighteen success responses).
C17_InstallAllOrFail ==
    [][/\ (lifecycle = "installing" /\ lifecycle' # "installing")
             => \A answers \in InstallAnswers :
                   (IF \A i \in 1..Len(answers) :
                          /\ IsResponse(answers[i])
                          /\ answers[i].status \in 200..299
                    THEN lifecycle' # "installed"
                    ELSE lifecycle' # "redundant")
                      => ~InstallSettles(answers)
       /\ (lifecycle = "installing" /\ lifecycle' = "installed")
             => LET stored == EntriesOf(caches' \o detached', startup.cache)
                IN  /\ \A i \in 1..Len(STATIC_ASSETS) :
                          /\ AssetUrls[i] \in KeySet(stored)
                          /\ CacheMatch(stored, AssetUrls[i]).status = 200
                    /\ IF Exists(caches', startup.cache)
                       THEN Tier(caches', STATIC_CACHE) = stored
                       ELSE \E s \in Slots :
                               /\ clearing[s].pc \in {"delete", "done"}
                               /\ Listed(clearing[s].cacheNames,
                                         STATIC_CACHE)]_vars

\* The worker is installed and the static tier holds the eighteen assets.
C17_Witness ==
    /\ lifecycle = "installed"
    /\ Len(Tier(caches, STATIC_CACHE)) = 18
    /\ Local("/scripts/app.js") \in KeySet(Tier(caches, STATIC_CACHE))
    /\ Url("https:", "cdnjs.cloudflare.com",
           "/ajax/libs/three.js/r128/three.min.js", "")
          \in KeySet(Tier(caches, STATIC_CACHE))

\* C18: the handling of CLEAR_CACHE lists every cache of the storage when
\* it starts; its deleting step removes every listed cache with all its
\* entries, so that a lookup of a resource such a cache held finds no
\* cached copy; the step that completes the handling leaves the storage as
\* it is.
C18_ClearDeletesEveryTier ==
    [][\A s \in Slots :
          /\ (clearing[s].pc = "idle" /\ clearing'[s].pc = "keys")
             => \A i \in 1..Len(caches) :
                   Listed(clearing'[s].cacheNames, caches[i].name)
          /\ (clearing[s].pc = "keys" /\ clearing'[s].pc = "delete")
             => \A i \in 1..Len(caches) :
                   Listed(clearing[s].cacheNames, caches[i].name)
                      => /\ ~Exists(caches', caches[i].id)
                         /\ \A j \in 1..Len(caches[i].entries) :
                               CachesMatch(caches', caches[i].entries[j].key)
                                  = Undefined
          /\ (clearing[s].pc = "delete" /\ clearing'[s].pc = "done")
             => caches' = caches]_vars

\* After the clearing, a request for a precached stylesheet missed the caches
\* and went to the network.
C18_Witness ==
    /\ \E s \in Slots : clearing[s].pc = "done"
    /\ \E e \in Slots :
          /\ handlers[e].request.url = UrlCss
          /\ Len(handlers[e].log) >= 2
          /\ handlers[e].log[1] = "match"
          /\ handlers[e].log[2] = "fetch"

\* The bundle request holds a success response for the URL.
Downloaded(b, url) ==
    \E i \in 1..Len(b.items) :
        /\ b.items[i].url = url
        /\ IsResponse(b.items[i].response)

\* C19: when a CACHE_HERITAGE_SITE request completes, every URL of the site
\* whose fetch answered with a success status has a success response stored
\* in the heritage tier, whatever the other fetches settled with, and the
\* request has written nothing for the others; a GET for a stored URL
\* dispatched afterwards finds the stored copy and, once its lookup has
\* settled, is answered with it without a network call.
C19_BundleStoredAndServed ==
    [][/\ \A b \in Slots :
             bundle'[b].pc = "done"
                => \A i \in 1..Len(bundle'[b].items) :
                      LET url == bundle'[b].items[i].url
                          copy == CacheMatch(Tier(caches', HERITAGE_CACHE), url)
                      IN  IF IsResponse(bundle'[b].items[i].response)
                          THEN /\ IsResponse(copy)
                               /\ copy.status \in 200..299
                               /\ copy.url = url
                          ELSE IsResponse(copy) => copy.ver # bundle'[b].id
       /\ \A e, b \in Slots :
             (/\ Dispatched(e)
              /\ bundle[b].pc = "done"
              /\ Downloaded(bundle[b], handlers'[e].request.url))
             => /\ handlers'[e].pc = "match"
                /\ IsResponse(handlers'[e].found)
                /\ handlers'[e].found
                      = CacheMatch(Tier(caches, HERITAGE_CACHE),
                                   handlers'[e].request.url)
       /\ \A e \in Slots :
             (MatchSettled(e) /\ IsResponse(handlers[e].found))
             => /\ handlers'[e].pc = "done"
                /\ handlers'[e].log = <<"match">>
                /\ handlers'[e].result = handlers[e].found]_vars

\* The image of the site was stored although the model could not be fetched,
\* and a later page load of the image was answered with the stored copy.
C19_Witness ==
    \E b \in Slots :
        /\ bundle[b].pc = "done"
        /\ Downloaded(bundle[b], UrlImage)
        /\ ~Downloaded(bundle[b], UrlModel)
        /\ ~Cached(caches, UrlModel)
        /\ \E e \in Slots :
              /\ handlers[e].id > bundle[b].id
              /\ handlers[e].request = Request("GET", UrlImage, "navigate")
              /\ handlers[e].log = <<"match">>
              /\ handlers[e].result
                    = Response(200, UrlImage, bundle[b].id, "origin")

\* C20: a static-asset GET whose fetch is rejected is answered with the
\* cached copy if there is one; otherwise a page load is answered with the
\* navigation fallback page, and any other request fails with the error of
\* the fetch.
C20_StaticFailureFallback ==
    [][\A e \in Slots :
          LET h == handlers[e]
              after == handlers'[e]
              url == h.request.url
          IN  /\ (/\ h.strategy = "static"
                  /\ Settled(e)
                  /\ after.networkResponse = NetworkError)
                 => /\ after.pc = "lookup"
                    /\ after.found = CachesMatch(caches, url)
              /\ (h.strategy = "static" /\ LookupSettled(e))
                 => IF IsResponse(h.found)
                    THEN /\ after.pc = "done"
                         /\ after.result = h.found
                    ELSE IF h.request.mode = "navigate"
                    THEN after.pc = "fallback"
                    ELSE /\ after.pc = "done"
                         /\ after.result = NetworkError
              /\ (/\ h.strategy = "static"
                  /\ h.pc = "fallback"
                  /\ after.pc = "done")
                 => /\ IsResponse(after.result)
                    /\ after.result.url = UrlOffline]_vars

---------------------------------------------------------------------------
(* Strategies compared *)

\* What a handler shows of itself apart from the tier it writes to: where it
\* stands, what it answers, what it fetched and the calls it made.
Behaviour(h) ==
    [pc |-> h.pc, result |-> h.result, networkResponse |-> h.networkResponse,
     found |-> h.found, error |-> h.error, log |-> h.log]

\* The name of the Cache object with this identity.
NameOf(cs, id) == cs[CHOOSE i \in 1..Len(cs) : cs[i].id = id].name

\* The step of heritage handler e is the step handleStaticAsset makes of the
\* same handler over the same storage, with the heritage tier written where
\* handleStaticAsset writes the static tier.
SameAsStatic(e) ==
    /\ Dispatched(e)
          => Behaviour(handlers'[e])
                = Behaviour(handleStaticAsset(
                      NewHandler(handlers'[e].id, handlers'[e].request), caches))
    /\ Settled(e)
          => LET outcome == handlers'[e].networkResponse
                 static == handleStaticAssetFetched(
                               [handlers[e] EXCEPT !.networkResponse = outcome],
                               caches, nextCacheId, outcome)
             IN  /\ Behaviour(handlers'[e]) = Behaviour(static.h)
                 /\ handlers'[e].pc = "open"
                       => /\ NameOf(caches', handlers'[e].cache) = HERITAGE_CACHE
                          /\ NameOf(static.cs, static.h.cache) = STATIC_CACHE
    /\ MatchSettled(e)
          => Behaviour(handlers'[e])
                = Behaviour(handleStaticAssetMatched(handlers[e]))
    /\ OpenSettled(e)
          => Behaviour(handlers'[e]) = Behaviour(Opened(handlers[e], caches))
    /\ LookupSettled(e)
          => Behaviour(handlers'[e])
                = Behaviour(handleStaticAssetCaught(handlers[e], caches))

\* C21: the heritage-content strategy does what the static-asset strategy
\* does for every request, cache content and network outcome (same answer
\* or failure, same calls), except for the tier a fetched response is
\* stored in.
C21_HeritageIsStatic ==
    [][\A e \in Slots :
          handlers'[e].strategy = "heritage" => SameAsStatic(e)]_vars

\* The handler is answering a page load whose fetch was rejected and whose
\* lookup in the catch block has found no cached copy.
FailedPageLoad(e) ==
    /\ handlers'[e].request.mode = "navigate"
    /\ LookupSettled(e)
    /\ handlers[e].error = NetworkError
    /\ ~IsResponse(handlers[e].found)

\* C21 (amended): the two strategies do the same except for the tier and
\* for a page load whose fetch is rejected while no copy is cached, which
\* the heritage-content strategy fails with the error of the fetch.
C21_HeritageIsStaticButPageLoad ==
    [][\A e \in Slots :
          handlers'[e].strategy = "heritage"
             => IF FailedPageLoad(e)
                THEN /\ handlers'[e].pc = "done"
                     /\ handlers'[e].result = NetworkError
                ELSE SameAsStatic(e)]_vars

\* Heritage handlers have answered from the cache, from the network with a
\* write to the heritage tier, and from the catch block.
C21_Witness ==
    /\ \E e \in Slots :
          /\ handlers[e].strategy = "heritage"
          /\ handlers[e].pc = "done"
          /\ handlers[e].log = <<"match", "fetch", "open", "put">>
          /\ CacheMatch(Tier(caches, HERITAGE_CACHE), handlers[e].request.url)
                = handlers[e].result
    /\ \E e \in Slots :
          /\ handlers[e].strategy = "heritage"
          /\ handlers[e].pc = "done"
          /\ handlers[e].log = <<"match", "fetch", "match">>

\* C22: the default strategy fetches first; for a success response it opens
\* the dynamic tier, returns the response and stores it there; when the
\* fetch is rejected it looks the request up, and the cached copy is
\* returned if there is one, the handler failing with the error of the
\* fetch otherwise.
C22_DefaultNetworkFirst ==
    [][\A e \in Slots :
          LET h == handlers[e]
              after == handlers'[e]
              url == after.request.url
          IN  after.strategy = "default"
              => /\ Dispatched(e)
                       => after.pc = "fetch" /\ after.log = <<"fetch">>
                 /\ (Settled(e) /\ IsResponse(after.networkResponse)
                        /\ after.networkResponse.status \in 200..299)
                       => /\ after.pc = "open"
                          /\ after.log = <<"fetch", "open">>
                          /\ NameOf(caches', after.cache) = DYNAMIC_CACHE
                 /\ OpenSettled(e)
                       => /\ after.pc = "put"
                          /\ after.result = h.networkResponse
                          /\ after.log = <<"fetch", "open", "put">>
                 /\ (h.pc = "put" /\ after.pc = "done")
                       => CacheMatch(Tier(caches', DYNAMIC_CACHE), url)
                             = after.result
                 /\ (Settled(e) /\ after.networkResponse = NetworkError)
                       => /\ after.pc = "lookup"
                          /\ after.found = CachesMatch(caches, url)
                 /\ LookupSettled(e)
                       => /\ after.pc = "done"
                          /\ after.result = IF IsResponse(h.found)
                                            THEN h.found
                                            ELSE NetworkError]_vars

\* One request for the video was stored, and a later one whose fetch was
\* rejected was answered with that copy.
C22_Witness ==
    \E e \in Slots :
        /\ handlers[e].strategy = "default"
        /\ handlers[e].pc = "done"
        /\ handlers[e].networkResponse = NetworkError
        /\ handlers[e].log = <<"fetch", "match">>
        /\ IsResponse(handlers[e].result)
        /\ handlers[e].result
              = CacheMatch(Tier(caches, DYNAMIC_CACHE), handlers[e].request.url)

---------------------------------------------------------------------------
(* Push notifications *)

\* The push message carried a URL for the notification.
SuppliedUrl(data) ==
    data.kind = "json" /\ data.url # "undefined" /\ data.url # ""

\* A click on the notification closes it, and opens `target` unless the
\* click was on the dismiss button.
ClickOpens(action, target) ==
    /\ ~notification'.shown
    /\ windows' = IF action \in {"explore", ""}
                  THEN Append(windows, target)
                  ELSE windows

\* C23: a click on the notification's open button, or on no button, opens
\* the URL the push message carried, or '/' when it carried none; a click
\* on the dismiss button closes the notification and opens nothing.
C23_ClickOpensPayloadUrlOrRoot ==
    [][\A action \in ClickActions :
          NotificationClick(action)
             => ClickOpens(action,
                           IF SuppliedUrl(notification.event)
                           THEN notification.event.url
                           ELSE "/")]_vars

\* C23 (amended): without a URL in the push message the click opens
\* '/#heritage-sites', the URL the push listener puts in every notification;
\* '/' is opened only for a message that carried an empty URL.
C23_ClickOpensPayloadUrlOrSites ==
    [][\A action \in ClickActions :
          NotificationClick(action)
             => ClickOpens(action,
                           IF SuppliedUrl(notification.event)
                           THEN notification.event.url
                           ELSE IF notification.event.kind = "json"
                                   /\ notification.event.url = ""
                           THEN "/"
                           ELSE "/#heritage-sites")]_vars

\* Two clicks have opened the default URL of a notification whose message
\* had no URL, and then the URL the next message carried.
C23_Witness ==
    /\ windows = <<"/#heritage-sites", "/#tours">>
    /\ ~notification.shown
    /\ notification.event.kind = "json"
    /\ notification.event.url = "/#tours"
    /\ nEvents = 4

---------------------------------------------------------------------------
(* The governor over a failing storage *)

\* A call of the governor's run rejects in this step.
GovFails == gov.error = Undefined /\ gov'.error # Undefined

\* Handler e moves in this step as its strategy prescribes for its request,
\* the storage and the network's answer, whatever the governor is doing.
AsPrescribed(e) ==
    /\ Dispatched(e) =>
           handlers'[e] =
               handleFetchRequest(NewHandler(e, handlers'[e].request), caches)
    /\ Settled(e) =>
           handlers'[e] =
               Fetched([handlers[e] EXCEPT
                            !.networkResponse = handlers'[e].networkResponse],
                       caches, nextCacheId, handlers'[e].networkResponse).h
    /\ MatchSettled(e) => handlers'[e] = Matched(handlers[e])
    /\ OpenSettled(e) => handlers'[e] = Opened(handlers[e], caches)
    /\ LookupSettled(e) => handlers'[e] = LookedUp(handlers[e], caches)

\* C24: a rejected navigator.storage.estimate() or a rejected delete of an
\* eviction ends that run of the governor, with the error logged and nothing
\* else of the worker touched: the worker stays activated, no handler moves,
\* and a failed estimate leaves the storage as it was.  After a failed run
\* the next tick of the interval starts a run again, and every handler,
\* before, during or after the failed run, is dispatched and settled as its
\* strategy prescribes.
C24_GovernorFailureContained ==
    [][/\ GovFails =>
              /\ gov'.pc = "done"
              /\ lifecycle' = lifecycle
              /\ handlers' = handlers
              /\ unhandled' = unhandled
              /\ gov.pc = "estimate" => caches' = caches
       /\ (gov.error # Undefined /\ nEvents < MaxEvents) => ENABLED GovTick
       /\ \A e \in Slots : AsPrescribed(e)]_vars

\* A run of the governor has failed on a rejected delete, the other delete
\* of the same eviction has removed its entry, and a request handled after
\* it was answered from the network.
C24_Witness ==
    /\ gov.pc = "done"
    /\ gov.error = StorageError
    /\ Len(gov.deleted) = 1
    /\ \E e \in Slots :
           /\ handlers[e].pc = "done"
           /\ IsResponse(handlers[e].result)
           /\ handlers[e].networkResponse = handlers[e].result

---------------------------------------------------------------------------
(* Writes of a tier under concurrency *)

\* The entries of a cache without their order.
EntrySet(entries) == {entries[i] : i \in 1..Len(entries)}

\* No two entries of a Cache object have the same key.
KeysUnique(cs) ==
    \A i \in 1..Len(cs) :
        Cardinality(KeySet(cs[i].entries)) = Len(cs[i].entries)

\* C25: whatever fetch events and governor run interleave on a key, no tier
\* ever holds two entries of one key, and the write that ends the handling
\* of a request lands in the dynamic tier under the key of the request: the
\* tier then holds the fetched response once under that key and every other
\* entry as before, so that handling the request again with the response the
\* tier holds leaves the tier with the entries it had.
C25_WritesOverwriteByKey ==
    [][/\ KeysUnique(caches \o detached)
       /\ KeysUnique(caches' \o detached')
       /\ \A s \in Slots :
             (handlers[s].pc = "put" /\ handlers'[s].pc = "done")
                => LET key == handlers[s].request.url
                       written == [key |-> key,
                                   resp |-> handlers[s].networkResponse]
                       before == EntrySet(Tier(caches, DYNAMIC_CACHE))
                       after == EntrySet(Tier(caches', DYNAMIC_CACHE))
                   IN  /\ after = {e \in before : e.key # key} \cup {written}
                       /\ written \in before => after = before
                       /\ Len(Tier(caches', DYNAMIC_CACHE))
                              = Cardinality(after)]_vars

\* Two handlers of the same key have fetched the same successful response,
\* the one the dynamic tier held before them, and both have written it; the
\* governor has evicted from the tier meanwhile.
C25_Witness ==
    /\ handlers[1].pc = "done"
    /\ handlers[2].pc = "done"
    /\ handlers[1].request = handlers[2].request
    /\ handlers[1].networkResponse = Stored(StoredUrl(1)).resp
    /\ handlers[2].networkResponse = Stored(StoredUrl(1)).resp
    /\ "put" \in {handlers[1].log[i] : i \in 1..Len(handlers[1].log)}
    /\ "put" \in {handlers[2].log[i] : i \in 1..Len(handlers[2].log)}
    /\ gov.pc = "done"
    /\ Len(gov.deleted) = 1
    /\ Stored(StoredUrl(1)) \in EntrySet(Tier(caches, DYNAMIC_CACHE))

\* The handlers of network-first requests of this key into the dynamic tier.
HandlersOf(key) ==
    {e \in Slots : /\ handlers[e].pc # "idle"
                   /\ handlers[e].request.url = key
                   /\ handlers[e].strategy \in {"api", "default"}}

\* Handler e has fetched a successful response.
Succeeded(e) ==
    IsResponse(handlers[e].networkResponse) /\ Ok(handlers[e].networkResponse)

\* C26: once every handler of a key fetched network-first has finished, the
\* dynamic tier holds for the key the response of the latest issued of the
\* fetches that succeeded.
C26_LatestIssuedFetchWins ==
    \A r \in FetchRequests :
        LET done == {e \in HandlersOf(r.url) : Succeeded(e)}
        IN  (/\ \A e \in HandlersOf(r.url) : handlers[e].pc = "done"
             /\ done # {})
            => CacheMatch(Tier(caches, DYNAMIC_CACHE), r.url) =
                   handlers[CHOOSE e \in done : \A f \in done : f <= e]
                       .networkResponse

\* C27: a handler that has ended has resolved with a response or rejected
\* with the failure of its fetch; it never resolves with undefined.
C27_NeverResolvesUndefined ==
    \A e \in Slots :
        handlers[e].pc = "done" =>
            \/ IsResponse(handlers[e].result)
            \/ handlers[e].result = NetworkError

---------------------------------------------------------------------------
(* Fetch handlers over a failing storage *)

\* C28: a handler of the static, api, heritage or default strategy whose
\* fetch has resolved with a successful response answers with that response,
\* also when caches.open or cache.put rejects while the response is
\* persisted.
C28_StorageFailureTransparent ==
    \A e \in Slots :
        (/\ handlers[e].pc \in {"put", "done"}
         /\ handlers[e].strategy \in {"static", "api", "heritage", "default"}
         /\ Succeeded(e))
        => handlers[e].result = handlers[e].networkResponse

---------------------------------------------------------------------------
(* Tiers and classification *)

\* The tier the strategy chosen for a GET of this key writes to.
TierOfKey(key) ==
    LET class == Strategy(Request("GET", key, "cors"))
    IN  CASE class = "static" -> STATIC_CACHE
          [] class = "heritage" -> HERITAGE_CACHE
          [] OTHER -> DYNAMIC_CACHE

\* C29: a key is stored in at most one of the three tiers, the one its
\* classification maps to: static-asset to the static tier, api and default
\* to the dynamic tier, heritage-content to the heritage tier.
C29_KeyInItsOwnTier ==
    \A i \in 1..Len(caches) :
        caches[i].name \in CurrentNames =>
            \A key \in KeySet(caches[i].entries) :
                caches[i].name = TierOfKey(key)

\* The URLs cache-bundle requests name.
BundledUrls ==
    UNION {{UrlsToCache(siteData)[i] : i \in 1..Len(UrlsToCache(siteData))} :
              siteData \in CdnPayloads}

\* C29, amended: a key stored in one of the three tiers is in the tier its
\* classification maps to, or it is in the heritage tier and a cache-bundle
\* request named it: cacheHeritageSite stores every URL of its payload in
\* the heritage tier, whatever its class.
C29_KeyInItsOwnTierOrBundled ==
    \A i \in 1..Len(caches) :
        caches[i].name \in CurrentNames =>
            \A key \in KeySet(caches[i].entries) :
                \/ caches[i].name = TierOfKey(key)
                \/ /\ caches[i].name = HERITAGE_CACHE
                   /\ key \in BundledUrls

\* The model of the site, a URL of the default class, is stored twice: in
\* the heritage tier by the site download, and in the dynamic tier by the
\* handler of a page's request for it.
C29_Witness ==
    /\ TierOfKey(UrlCdnModel) = DYNAMIC_CACHE
    /\ UrlCdnModel \in KeySet(Tier(caches, HERITAGE_CACHE))
    /\ UrlCdnModel \in KeySet(Tier(caches, DYNAMIC_CACHE))
    /\ \E b \in Slots : bundle[b].pc = "done"
    /\ \E e \in Slots :
           handlers[e].pc = "done" /\ handlers[e].request.url = UrlCdnModel

====
